---- MODULE Spec2Model ----
(***************************************************************************)
(* LexonAI: the Progress Tracker (services/progressManager) with the       *)
(* progress route built on it, the density configuration, the              *)
(* POST /api/expand/source route with its extraction agent, the client's  *)
(* Sidebar that expands a source or a reasoning, the client's progress     *)
(* polling, and the truncation stages of the graph build.  Each component  *)
(* has its own specification; the variables of the others keep their       *)
(* initial values.                                                         *)
(*                                                                         *)
(* The tracker is a process-wide Map from job id to ProgressState, with a  *)
(* setInterval timer that sweeps old jobs.  Node runs every method and     *)
(* every timer callback to completion, so each is one action.              *)
(* Time is Date.now() in milliseconds.                                     *)
(***************************************************************************)
EXTENDS Integers, FiniteSets, Sequences, TLC

VARIABLES
    jobs,             \* ProgressManager.jobs : Map<string, ProgressState>
    cleanupInterval,  \* ProgressManager.cleanupInterval : the timer, or null
    now,              \* Date.now()
    last,             \* the call made by the latest step and what it returned
    pending,          \* updateProgress calls issued and not yet run
    \* density.ts
    density,          \* the call of getDensityConfig / inferDensityLevel at hand
    \* expandSourceRoute.ts and expandSourceAgent
    exaApiKey,        \* config.exaApiKey is set
    handler,          \* handleExpandSource: the request at hand and its response
    exaCalls,         \* the calls made to exaClient.answer for that request
    \* Sidebar.tsx
    node,             \* props.node: the selected node, or null
    latestNodeIdRef,  \* latestNodeIdRef.current
    isExpandingSource,
    hasExpandedSource,
    sourceExpandError,
    reasoning,        \* expandedReasoning, isExpanding, expandError, expandMeta
    fetches,          \* expand-source requests whose handler has not returned
    graph,            \* what onAddNodesAndEdges has received
    sourceLog,        \* the expand-source requests sent and the additions made
    \* App.tsx
    loadingProgress,
    isLoading,
    pollingIntervalRef,            \* pollingIntervalRef.current: a timer id, or 0 for null
    pollingFailureCountRef,        \* pollingFailureCountRef.current
    syntheticProgressIntervalRef,  \* syntheticProgressIntervalRef.current, likewise
    timers,           \* the intervals set with window.setInterval and not cleared
    nextTimer,        \* the id window.setInterval returns next
    polls,            \* the progress polls in flight, by the await they are at
    questions,        \* handleQuestionSubmit calls, by the await they are at
    pollLog,          \* the polls that ended and the cleanupPolling calls, in order
    \* the graph build
    build             \* the stage of a graph build at hand: its inputs and its output

trackerVars == <<jobs, cleanupInterval, now, last, pending>>
densityVars == <<density>>
expandVars == <<exaApiKey, handler, exaCalls>>
sidebarVars == <<node, latestNodeIdRef, isExpandingSource, hasExpandedSource,
                 sourceExpandError, reasoning, fetches, graph, sourceLog>>
appVars == <<loadingProgress, isLoading, pollingIntervalRef, pollingFailureCountRef,
             syntheticProgressIntervalRef, timers, nextTimer, polls, questions,
             pollLog>>
buildVars == <<build>>
vars == <<trackerVars, densityVars, expandVars, sidebarVars, appVars, buildVars>>

----------------------------------------------------------------------------
(* Bounds of the model *)

\* how many sweep intervals the clock runs for
MaxIntervals == 6
\* how many updateProgress calls are in flight at once (SpecConcurrent)
MaxCalls == 3

JobIds == {"j1", "j2"}
\* requested progress values: below 0, in range, above 100
ProgressArgs == {-5, 50, 120}
StatusArgs == {"Answering"}
\* phases a caller may pass: members of the documented set and a foreign one
PhaseArgs == {"answer", "y"}

----------------------------------------------------------------------------
(* Program constants *)

CLEANUP_AFTER_MS == 5 * 60 * 1000
CLEANUP_CHECK_INTERVAL_MS == 60 * 1000

\* the clock is observed once per sweep interval
TimeStep == CLEANUP_CHECK_INTERVAL_MS
MaxTime == MaxIntervals * CLEANUP_CHECK_INTERVAL_MS

----------------------------------------------------------------------------
(* Helpers *)

Min(a, b) == IF a < b THEN a ELSE b
Max(a, b) == IF a > b THEN a ELSE b

\* Map.prototype.set
MapSet(m, k, v) == [x \in DOMAIN m \cup {k} |-> IF x = k THEN v ELSE m[x]]
\* Map.prototype.delete
MapDelete(m, k) == [x \in DOMAIN m \ {k} |-> m[x]]
\* Map.prototype.has
MapHas(m, k) == k \in DOMAIN m

Null == [null |-> TRUE]
NullTimer == [active |-> FALSE, due |-> 0]

----------------------------------------------------------------------------
(* The components at rest *)

IdleDensity == [pc |-> "idle"]
IdleHandler == [pc |-> "idle"]
NoGraph == [nodes |-> {}, edges |-> {}]
\* lines 40-43
NoReasoning ==
    [expandedReasoning |-> Null, isExpanding |-> FALSE, expandError |-> Null,
     expandMeta |-> Null]

DensityAtRest == density = IdleDensity

ExpandAtRest ==
    /\ exaApiKey = FALSE
    /\ handler = IdleHandler
    /\ exaCalls = <<>>

\* no build stage run
NoBuild == [op |-> "none"]
BuildAtRest == build = NoBuild

\* no question asked, no poll sent
NoPolls == [fetch |-> 0, json |-> 0]
NoQuestions == [asked |-> 0, asking |-> 0, loadingDemo |-> 0, hiding |-> 0]

\* App.tsx lines 18 and 30-34: the state and the refs of the component as mounted
AppAtRest ==
    /\ loadingProgress = 0
    /\ isLoading = FALSE
    /\ pollingIntervalRef = 0
    /\ pollingFailureCountRef = 0
    /\ syntheticProgressIntervalRef = 0
    /\ timers = {}
    /\ nextTimer = 1
    /\ polls = NoPolls
    /\ questions = NoQuestions
    /\ pollLog = <<>>

\* lines 40-47: the component's initial state, with no node selected
SidebarAtRest ==
    /\ node = Null
    /\ latestNodeIdRef = Null
    /\ isExpandingSource = FALSE
    /\ hasExpandedSource = FALSE
    /\ sourceExpandError = Null
    /\ reasoning = NoReasoning
    /\ fetches = {}
    /\ graph = NoGraph
    /\ sourceLog = <<>>

----------------------------------------------------------------------------
(* ProgressManager methods, as functions on the job map *)

ProgressState(p, s, ph, c) ==
    [progress |-> p, status |-> s, phase |-> ph, createdAt |-> c]

\* variant: the map is emptied (clear in place of delete)
removeJob_Clear(js, jobId) == IF MapHas(js, jobId) THEN <<>> ELSE js

\* variant: an existing job is kept as it is
createJob_KeepExisting(js, jobId, t) ==
    IF MapHas(js, jobId)
    THEN js
    ELSE MapSet(js, jobId, ProgressState(0, "Starting...", "init", t))

createJob(js, jobId, t) ==
    MapSet(js, jobId, ProgressState(0, "Starting...", "init", t))

\* variant: the requested value is stored without the max with the current one
newProgress_NoMax(current, progress) == Min(100, progress)

\* line 51: Math.max(job.progress, Math.min(100, progress))
newProgress(current, progress) == Max(current, Min(100, progress))

\* variant: the requested value is not clamped to 100
updateProgress_NoClamp(js, jobId, progress, status, phase) ==
    IF ~MapHas(js, jobId)
    THEN js
    ELSE MapSet(js, jobId,
                ProgressState(Max(js[jobId].progress, progress),
                              status, phase, js[jobId].createdAt))

\* variant: an unknown id gets a record (set without the existence check)
updateProgress_Upsert(js, jobId, progress, status, phase) ==
    MapSet(js, jobId,
           ProgressState(IF MapHas(js, jobId)
                         THEN newProgress(js[jobId].progress, progress)
                         ELSE newProgress(0, progress),
                         status, phase,
                         IF MapHas(js, jobId) THEN js[jobId].createdAt ELSE now))

\* variant: reaching 100 marks the job complete
updateProgress_AutoComplete(js, jobId, progress, status, phase) ==
    IF ~MapHas(js, jobId)
    THEN js
    ELSE LET p == newProgress(js[jobId].progress, progress) IN
         MapSet(js, jobId,
                ProgressState(p, status, IF p = 100 THEN "complete" ELSE phase,
                              js[jobId].createdAt))

\* variant: a request below the current progress changes nothing
updateProgress_KeepOnLower(js, jobId, progress, status, phase) ==
    IF ~MapHas(js, jobId) \/ progress < js[jobId].progress
    THEN js
    ELSE MapSet(js, jobId,
                ProgressState(newProgress(js[jobId].progress, progress),
                              status, phase, js[jobId].createdAt))

updateProgress(js, jobId, progress, status, phase) ==
    IF ~MapHas(js, jobId)
    THEN js
    ELSE MapSet(js, jobId,
                ProgressState(newProgress(js[jobId].progress, progress),
                              status, phase, js[jobId].createdAt))

\* variant: an unknown id reads as a job that has not started
getProgress_Default(js, jobId) ==
    IF MapHas(js, jobId) THEN js[jobId] ELSE ProgressState(0, "Starting...", "init", 0)

getProgress(js, jobId) == IF MapHas(js, jobId) THEN js[jobId] ELSE Null

\* variant: progress is left where it was
completeJob_KeepProgress(js, jobId) ==
    IF ~MapHas(js, jobId)
    THEN js
    ELSE MapSet(js, jobId,
                ProgressState(js[jobId].progress, "Ready", "complete",
                              js[jobId].createdAt))

completeJob(js, jobId) ==
    IF ~MapHas(js, jobId)
    THEN js
    ELSE MapSet(js, jobId,
                ProgressState(100, "Ready", "complete", js[jobId].createdAt))

removeJob(js, jobId) == MapDelete(js, jobId)

\* variant: a job is old as soon as its age reaches the window
isOld_AtWindow(job, t) == t - job.createdAt >= CLEANUP_AFTER_MS

\* line 116: the test that decides whether a job is swept
isOld(job, t) == t - job.createdAt > CLEANUP_AFTER_MS

\* variant: only jobs that nobody has updated are swept
cleanupOldJobs_KeepTouched(js, t) ==
    [x \in {k \in DOMAIN js : ~(isOld(js[k], t) /\ js[k].phase = "init")} |-> js[x]]

cleanupOldJobs(js, t) ==
    [x \in {k \in DOMAIN js : ~isOld(js[k], t)} |-> js[x]]

startCleanupInterval(t) == [active |-> TRUE, due |-> t + CLEANUP_CHECK_INTERVAL_MS]

\* variant: the timer is left running
shutdown_KeepTimer(timer) == timer

\* lines 130-134: clearInterval, and the field set to null
shutdown(timer) == IF timer.active THEN NullTimer ELSE timer

\* what each mutation writes to the console: a warning when the job is unknown
logOf(js, jobId) == IF MapHas(js, jobId) THEN "log" ELSE "warn"

----------------------------------------------------------------------------
(* The progress route, GET /api/progress/:jobId *)

progressRoute(js, jobId) ==
    IF jobId = ""
    THEN [code |-> 400, error |-> "Job ID is required"]
    ELSE LET progressState == getProgress(js, jobId) IN
         IF progressState = Null
         THEN [code |-> 404, error |-> "Job not found"]
         ELSE [code |-> 200,
               jobId |-> jobId,
               progress |-> progressState.progress,
               status |-> progressState.status,
               phase |-> progressState.phase]

----------------------------------------------------------------------------
(* The tracker as a state machine *)

NoArgs == [progress |-> 0]
NoOutput == [code |-> 0]
\* op, id, args: the call; found: whether the id had a job when it was made;
\* out: what the call wrote to the console or sent as a response
Call(op, id, args, found, out) ==
    [op |-> op, id |-> id, args |-> args, found |-> found, out |-> out]

Init ==
    /\ jobs = <<>>
    /\ cleanupInterval = startCleanupInterval(0)
    /\ now = 0
    /\ last = Call("new", "", NoArgs, FALSE, NoOutput)
    /\ pending = {}
    /\ DensityAtRest /\ ExpandAtRest /\ SidebarAtRest /\ AppAtRest /\ BuildAtRest

CreateJob(jobId) ==
    /\ jobs' = createJob(jobs, jobId, now)
    /\ last' = Call("createJob", jobId, NoArgs, MapHas(jobs, jobId),
                    [code |-> 0, console |-> "log"])
    /\ UNCHANGED <<cleanupInterval, now, pending, densityVars, appVars, buildVars, expandVars, sidebarVars>>

UpdateProgress(jobId, progress, status, phase) ==
    /\ jobs' = updateProgress(jobs, jobId, progress, status, phase)
    /\ last' = Call("updateProgress", jobId, [progress |-> progress],
                    MapHas(jobs, jobId),
                    [code |-> 0, console |-> logOf(jobs, jobId)])
    /\ UNCHANGED <<cleanupInterval, now, pending, densityVars, appVars, buildVars, expandVars, sidebarVars>>

CompleteJob(jobId) ==
    /\ jobs' = completeJob(jobs, jobId)
    /\ last' = Call("completeJob", jobId, NoArgs, MapHas(jobs, jobId),
                    [code |-> 0, console |-> logOf(jobs, jobId)])
    /\ UNCHANGED <<cleanupInterval, now, pending, densityVars, appVars, buildVars, expandVars, sidebarVars>>

RemoveJob(jobId) ==
    /\ jobs' = removeJob(jobs, jobId)
    /\ last' = Call("removeJob", jobId, NoArgs, MapHas(jobs, jobId),
                    [code |-> 0,
                     console |-> IF MapHas(jobs, jobId) THEN "log" ELSE "none"])
    /\ UNCHANGED <<cleanupInterval, now, pending, densityVars, appVars, buildVars, expandVars, sidebarVars>>

GetProgress(jobId) ==
    /\ last' = Call("GET", jobId, NoArgs, MapHas(jobs, jobId),
                    progressRoute(jobs, jobId))
    /\ UNCHANGED <<jobs, cleanupInterval, now, pending, densityVars, appVars, buildVars, expandVars, sidebarVars>>

\* lines 113-124: how many jobs a sweep deleted (logged when positive)
cleanedCount(js, t) == Cardinality(DOMAIN js) - Cardinality(DOMAIN cleanupOldJobs(js, t))

\* the setInterval callback: runs when the timer is due, then is rescheduled
SweepTick ==
    /\ cleanupInterval.active
    /\ now >= cleanupInterval.due
    /\ jobs' = cleanupOldJobs(jobs, now)
    /\ cleanupInterval' = [active |-> TRUE, due |-> now + CLEANUP_CHECK_INTERVAL_MS]
    /\ last' = Call("sweep", "", NoArgs, FALSE,
                    [code |-> 0, cleaned |-> cleanedCount(jobs, now)])
    /\ UNCHANGED <<now, pending, densityVars, appVars, buildVars, expandVars, sidebarVars>>

Shutdown ==
    /\ cleanupInterval' = shutdown(cleanupInterval)
    /\ last' = Call("shutdown", "", NoArgs, FALSE, [code |-> 0, console |-> "log"])
    /\ UNCHANGED <<jobs, now, pending, densityVars, appVars, buildVars, expandVars, sidebarVars>>

\* the clock advances; a due timer callback runs before it advances further
Tick ==
    /\ now + TimeStep <= MaxTime
    /\ ~(cleanupInterval.active /\ now >= cleanupInterval.due)
    /\ now' = now + TimeStep
    /\ last' = Call("tick", "", NoArgs, FALSE, NoOutput)
    /\ UNCHANGED <<jobs, cleanupInterval, pending, densityVars, appVars, buildVars, expandVars, sidebarVars>>

Next ==
    \/ \E jobId \in JobIds : CreateJob(jobId)
    \/ \E jobId \in JobIds, progress \in ProgressArgs,
          status \in StatusArgs, phase \in PhaseArgs :
            UpdateProgress(jobId, progress, status, phase)
    \/ \E jobId \in JobIds : CompleteJob(jobId)
    \/ \E jobId \in JobIds : RemoveJob(jobId)
    \/ \E jobId \in JobIds \cup {""} : GetProgress(jobId)
    \/ SweepTick
    \/ Shutdown
    \/ Tick

Spec == Init /\ [][Next]_vars

----------------------------------------------------------------------------
(* Properties of the Progress Tracker *)

Age(job) == now - job.createdAt
\* the step just taken was op on id
Did(op, id) == last'.op = op /\ last'.id = id
Touches == {"updateProgress", "completeJob"}

\* the documented order of phases
Phases == <<"init", "research", "answer", "graph", "complete">>
IsPhase(ph) == \E i \in DOMAIN Phases : Phases[i] = ph
PhaseRank(ph) == CHOOSE i \in DOMAIN Phases : Phases[i] = ph

\* C1: updateProgress on an existing job sets progress to
\* max(current, min(100, requested)), and as long as the job is neither
\* re-created nor removed its progress never decreases.
C1_ProgressMonotonic ==
    [][\A id \in DOMAIN jobs :
        /\ Did("updateProgress", id) =>
             LET req == IF last'.args.progress > 100 THEN 100 ELSE last'.args.progress
                 old == jobs[id].progress
             IN  /\ id \in DOMAIN jobs'
                 /\ jobs'[id].progress = (IF old >= req THEN old ELSE req)
        /\ (id \in DOMAIN jobs' /\ ~Did("createJob", id)) =>
             jobs'[id].progress >= jobs[id].progress
      ]_vars

\* C1 witness: a request of 50 was applied to a job that stands above 50
C1_Witness ==
    /\ last.op = "updateProgress"
    /\ last.found
    /\ last.args.progress = 50
    /\ jobs[last.id].progress > 50

C4_SweepDeletesByAge ==
    /\ [][last'.op = "sweep" =>
            /\ \A id \in DOMAIN jobs :
                 IF Age(jobs[id]) > CLEANUP_AFTER_MS
                 THEN id \notin DOMAIN jobs'
                 ELSE id \in DOMAIN jobs' /\ jobs'[id] = jobs[id]
            /\ DOMAIN jobs' \subseteq DOMAIN jobs
        ]_vars
    /\ [](cleanupInterval.active =>
            \A id \in DOMAIN jobs :
               Age(jobs[id]) <= CLEANUP_AFTER_MS + CLEANUP_CHECK_INTERVAL_MS)

\* C4 witness: a sweep has deleted a job and kept one whose age is exactly
\* the retention window
C4_Witness ==
    /\ last.op = "sweep"
    /\ last.out.cleaned = 1
    /\ \E id \in DOMAIN jobs : Age(jobs[id]) = CLEANUP_AFTER_MS

\* C5: every stored job has 0 <= progress <= 100.
C5_ProgressInRange ==
    \A id \in DOMAIN jobs : jobs[id].progress >= 0 /\ jobs[id].progress <= 100

\* C5 witness: a request above 100 was applied and the job stands at 100
C5_Witness ==
    /\ last.op = "updateProgress"
    /\ last.found
    /\ last.args.progress > 100
    /\ jobs[last.id].progress = 100

\* C6: completeJob on an existing job leaves it at progress 100, phase
\* complete, status Ready.
C6_CompleteForces ==
    (last.op = "completeJob" /\ last.found) =>
        /\ last.id \in DOMAIN jobs
        /\ jobs[last.id].progress = 100
        /\ jobs[last.id].phase = "complete"
        /\ jobs[last.id].status = "Ready"

\* C6 witness: completeJob has acted on an existing job, some time after its
\* creation
C6_Witness ==
    /\ last.op = "completeJob"
    /\ last.found
    /\ last.out.console = "log"
    /\ Age(jobs[last.id]) > 0

\* C7: updateProgress, completeJob and removeJob on an id without a job
\* return normally, create no job and leave the job map as it was.
C7_UnknownIdNoOp ==
    [][\A id \in JobIds :
        (last'.op \in {"updateProgress", "completeJob", "removeJob"}
            /\ last'.id = id /\ id \notin DOMAIN jobs)
        => /\ jobs' = jobs
           /\ ~last'.found
           /\ last'.out.code = 0
      ]_vars

\* C7 witness: updateProgress was called for an unknown id while another job
\* is stored; it warned and there is still no job for the id
C7_Witness ==
    /\ last.op = "updateProgress"
    /\ ~last.found
    /\ last.out.console = "warn"
    /\ last.id \notin DOMAIN jobs
    /\ jobs # <<>>

\* C8: GET /progress/{jobId} answers 404 exactly when no job is stored for
\* jobId, and otherwise 200 with jobId and the stored progress, status and
\* phase; the read leaves the tracker as it was.
C8_ProgressRoute ==
    [][\A id \in JobIds :
        Did("GET", id) =>
            /\ jobs' = jobs
            /\ cleanupInterval' = cleanupInterval
            /\ (last'.out.code = 404) <=> (id \notin DOMAIN jobs)
            /\ last'.out.code \in {200, 404}
            /\ last'.out.code = 200 =>
                 /\ last'.out.jobId = id
                 /\ last'.out.progress = jobs[id].progress
                 /\ last'.out.status = jobs[id].status
                 /\ last'.out.phase = jobs[id].phase
      ]_vars

\* C8 witness: a read answered 200 for a job that an update had moved to 50
C8_Witness ==
    /\ last.op = "GET"
    /\ last.out.code = 200
    /\ last.out.progress = 50
    /\ last.out.phase = "answer"

\* C9: createJob leaves the id with a fresh record (0, init, Starting...,
\* createdAt = now), also when the id already had a job.
C9_CreateOverwrites ==
    last.op = "createJob" =>
        /\ last.id \in DOMAIN jobs
        /\ jobs[last.id] = [progress |-> 0, status |-> "Starting...",
                            phase |-> "init", createdAt |-> now]

\* C9 witness: createJob has replaced an existing job at a later time
C9_Witness ==
    /\ last.op = "createJob"
    /\ last.found
    /\ now > 0
    /\ jobs[last.id].progress = 0

----------------------------------------------------------------------------
(* Concurrent updateProgress calls for one job.                            *)
(* Callers issue calls at any time; Node runs each call to completion, in  *)
(* any order relative to the others.                                       *)

ConcurrentJob == "j1"
\* requested progress values of the concurrent calls
ConcurrentArgs == {-5, 30, 50, 70, 120}

\* a call in flight: its arguments, and seen, the progress the job had when
\* the call was issued
InFlight(n, progress, status, phase, seen) ==
    [n |-> n, progress |-> progress, status |-> status, phase |-> phase,
     seen |-> seen]

\* variant: the call computes from the progress it saw when it was issued
runUpdate_Snapshot(js, c) ==
    MapSet(js, ConcurrentJob,
           ProgressState(newProgress(c.seen, c.progress), c.status, c.phase,
                         js[ConcurrentJob].createdAt))

\* lines 43-61 run without a suspension point: the call reads the job as it
\* is when the call runs
runUpdate(js, c) == updateProgress(js, ConcurrentJob, c.progress, c.status, c.phase)

\* the job before the calls: fresh, or after one earlier update
InitConcurrent ==
    /\ \E p \in ProgressArgs \cup {0}, status \in StatusArgs, phase \in PhaseArgs :
         jobs = updateProgress(createJob(<<>>, ConcurrentJob, 0),
                               ConcurrentJob, p, status, phase)
    /\ cleanupInterval = startCleanupInterval(0)
    /\ now = 0
    /\ last = Call("concurrent", ConcurrentJob,
                   [prior |-> jobs[ConcurrentJob].progress, issued |-> 0,
                    requested |-> {}, order |-> <<>>],
                   TRUE, NoOutput)
    /\ pending = {}
    /\ DensityAtRest /\ ExpandAtRest /\ SidebarAtRest /\ AppAtRest /\ BuildAtRest

IssueUpdate(progress, status, phase) ==
    /\ last.args.issued < MaxCalls
    /\ pending' = pending \cup
          {InFlight(last.args.issued + 1, progress, status, phase,
                    jobs[ConcurrentJob].progress)}
    /\ last' = [last EXCEPT !.op = "issue",
                            !.args.issued = @ + 1,
                            !.args.requested = @ \cup {progress}]
    /\ UNCHANGED <<jobs, cleanupInterval, now, densityVars, appVars, buildVars, expandVars, sidebarVars>>

RunUpdate(c) ==
    /\ c \in pending
    /\ jobs' = runUpdate(jobs, c)
    /\ pending' = pending \ {c}
    /\ last' = [last EXCEPT !.op = "run",
                            !.args.order = Append(@, c.progress)]
    /\ UNCHANGED <<cleanupInterval, now, densityVars, appVars, buildVars, expandVars, sidebarVars>>

NextConcurrent ==
    \/ \E progress \in ConcurrentArgs, status \in StatusArgs, phase \in PhaseArgs :
          IssueUpdate(progress, status, phase)
    \/ \E c \in pending : RunUpdate(c)

SpecConcurrent == InitConcurrent /\ [][NextConcurrent]_vars

SetMax(S) == CHOOSE x \in S : \A y \in S : y <= x
\* the requests of the calls that have run, in the order they ran
Applied == {last.args.order[i] : i \in DOMAIN last.args.order}
Clamped(S) == {IF p > 100 THEN 100 ELSE p : p \in S}

\* C10: whatever the order in which concurrent updateProgress calls for one
\* job run, the job's progress is the maximum of its prior progress and the
\* clamped requests of the calls that have run; once all have run it is the
\* maximum over all requests.
C10_ConcurrentMax ==
    /\ jobs[ConcurrentJob].progress =
          SetMax({last.args.prior} \cup Clamped(Applied))
    /\ pending = {} =>
          jobs[ConcurrentJob].progress =
             SetMax({last.args.prior} \cup Clamped(last.args.requested))

\* C10 witness: starting from progress 0, three calls have all run,
\* the one requesting most first, and the job stands at the greatest request
C10_Witness ==
    /\ last.op = "run"
    /\ pending = {}
    /\ last.args.prior = 0
    /\ last.args.order = <<70, 30, 50>>
    /\ jobs[ConcurrentJob].progress = 70

----------------------------------------------------------------------------
(* Further properties of the Progress Tracker *)

Mutations == {"createJob", "updateProgress", "completeJob", "removeJob"}

\* C11: createJob, updateProgress, completeJob and removeJob on one id leave
\* the presence and the record of every other id as they were.
C11_OtherJobsUntouched ==
    [][\A a \in JobIds :
        (last'.op \in Mutations /\ last'.id = a) =>
            \A b \in JobIds \ {a} :
                /\ (b \in DOMAIN jobs') <=> (b \in DOMAIN jobs)
                /\ b \in DOMAIN jobs => jobs'[b] = jobs[b]
      ]_vars

\* C11 witness: a job has just been removed while the other job, which an
\* update had moved to 50, is still stored
C11_Witness ==
    /\ last.op = "removeJob"
    /\ last.found
    /\ \E b \in DOMAIN jobs : b # last.id /\ jobs[b].progress = 50

\* C12: shutdown leaves no timer; from then on no sweep runs, the timer is
\* never started again, a stored job disappears only by removeJob, and a
\* further shutdown changes neither the timer nor the jobs.
C12_NoSweepAfterShutdown ==
    [][/\ last'.op = "shutdown" => ~cleanupInterval'.active
       /\ ~cleanupInterval.active =>
            /\ ~cleanupInterval'.active
            /\ last'.op # "sweep"
            /\ \A id \in DOMAIN jobs :
                 id \in DOMAIN jobs' \/ (last'.op = "removeJob" /\ last'.id = id)
            /\ last'.op = "shutdown" =>
                 cleanupInterval' = cleanupInterval /\ jobs' = jobs
      ]_vars

\* C12 witness: with the timer stopped, a job older than the retention window
\* plus one sweep interval has just been read
C12_Witness ==
    /\ ~cleanupInterval.active
    /\ last.op = "GET"
    /\ last.out.code = 200
    /\ Age(jobs[last.id]) >= CLEANUP_AFTER_MS + CLEANUP_CHECK_INTERVAL_MS

\* C30: updateProgress on a stored job leaves it with the status and the
\* phase that were passed, whatever the requested progress; neither
\* updateProgress nor completeJob changes createdAt.
C30_StatusPhaseReplaced ==
    [][\A id \in DOMAIN jobs :
        /\ Did("updateProgress", id) =>
             /\ jobs'[id].createdAt = jobs[id].createdAt
             /\ jobs'[id].status \in StatusArgs
             /\ jobs'[id].phase \in PhaseArgs
             /\ \A status \in StatusArgs, phase \in PhaseArgs :
                  jobs' = updateProgress(jobs, id, last'.args.progress, status, phase)
                      => jobs'[id].status = status /\ jobs'[id].phase = phase
        /\ Did("completeJob", id) => jobs'[id].createdAt = jobs[id].createdAt
      ]_vars

\* C30 witness: a job that stands at 100, created some time ago, has just
\* been asked for -5 and holds the status and phase of that call
C30_Witness ==
    /\ last.op = "updateProgress"
    /\ last.found
    /\ last.args.progress = -5
    /\ jobs[last.id].progress = 100
    /\ jobs[last.id].status = "Answering"
    /\ jobs[last.id].phase = "y"
    /\ Age(jobs[last.id]) > 0

----------------------------------------------------------------------------
(* JavaScript values *)

\* a value by its typeof tag t and its String() rendering v
JsValue(t, v) == [t |-> t, v |-> v]
Undefined == JsValue("undefined", "undefined")
JsNull == JsValue("object", "null")
Str(s) == JsValue("string", s)
Num(s) == JsValue("number", s)

\* ToBoolean
Truthy(x) ==
    ~ \/ x = Undefined
      \/ x = JsNull
      \/ x = Str("")
      \/ x.t = "number" /\ x.v \in {"0", "NaN"}
      \/ x.t = "boolean" /\ x.v = "false"

\* the key of a property access obj[x]
ToPropertyKey(x) == x.v

\* the module-level singleton after import: no job, the timer started
TrackerAtRest ==
    /\ jobs = <<>>
    /\ cleanupInterval = startCleanupInterval(0)
    /\ now = 0
    /\ last = Call("new", "", NoArgs, FALSE, NoOutput)
    /\ pending = {}

----------------------------------------------------------------------------
(* config/density.ts *)

\* line 18
DensityLevels == {"low", "medium", "high"}

Range3(a, b, c) == [min |-> a, target |-> b, max |-> c]
Secondary(a, b, c) ==
    [topSourcesToProcess |-> a, conceptsPerSource |-> b, maxTotalConcepts |-> c]
\* minSimilarity is kept in hundredths: 65 stands for 0.65
Semantic(a, b, c) == [minSimilarity |-> a, topK |-> b, maxEdges |-> c]

\* lines 58-115
DENSITY_PRESETS ==
    [low |-> [exaNumResults |-> 6,
              directSourcesPerBlock |-> Range3(1, 2, 4),
              secondarySources |-> Secondary(3, 2, 15),
              semanticEdges |-> Semantic(65, 4, 40)],
     medium |-> [exaNumResults |-> 10,
                 directSourcesPerBlock |-> Range3(1, 4, 6),
                 secondarySources |-> Secondary(5, 3, 30),
                 semanticEdges |-> Semantic(60, 6, 80)],
     high |-> [exaNumResults |-> 12,
               directSourcesPerBlock |-> Range3(1, 5, 8),
               secondarySources |-> Secondary(8, 4, 40),
               semanticEdges |-> Semantic(55, 8, 120)]]

\* line 120
DEFAULT_DENSITY == "medium"

\* variant: a missing level gets the low preset
getDensityConfig_DefaultLow(level) ==
    LET key == IF level = Undefined THEN "low" ELSE ToPropertyKey(level)
    IN  IF key \in DOMAIN DENSITY_PRESETS THEN DENSITY_PRESETS[key] ELSE Undefined

\* lines 125-127: the default stands in for undefined only; the preset is a
\* property read, which gives undefined for a key the table does not have
getDensityConfig(level) ==
    LET key == IF level = Undefined THEN DEFAULT_DENSITY ELSE ToPropertyKey(level)
    IN  IF key \in DOMAIN DENSITY_PRESETS THEN DENSITY_PRESETS[key] ELSE Undefined

\* A question is told by what the heuristics read from it: how many words
\* it has that match neither pattern, how many words match the multi-part
\* pattern ("and"), how many the list pattern ("list"), and how many '?'
\* are attached to its words.
Question(plain, multi, list, marks) ==
    [plain |-> plain, multi |-> multi, list |-> list, marks |-> marks]

\* line 148: question.trim().split(/\s+/).length; the empty string splits
\* into one empty piece
questionWords(q) ==
    LET n == q.plain + q.multi + q.list IN IF n = 0 THEN 1 ELSE n
\* line 149
questionMarks(q) == q.marks
\* line 150
hasMultiPartIndicators(q) == q.multi > 0
\* line 151
hasListIndicators(q) == q.list > 0

\* an optional number argument: left out, or given
NotGiven == <<>>
Given(n) == <<n>>

\* lines 153-169
densityScore(q, answerBlockCount) ==
    (IF questionWords(q) > 20 THEN 2 ELSE IF questionWords(q) > 10 THEN 1 ELSE 0)
    + (IF questionMarks(q) > 1 THEN 2 ELSE 0)
    + (IF hasMultiPartIndicators(q) THEN 1 ELSE 0)
    + (IF hasListIndicators(q) THEN 1 ELSE 0)
    + (IF answerBlockCount = NotGiven THEN 0
       ELSE IF answerBlockCount[1] >= 6 THEN 2
       ELSE IF answerBlockCount[1] >= 4 THEN 1 ELSE 0)

\* variant: high only above a score of 4
inferDensityLevel_HighAbove4(q, answerBlockCount) ==
    LET score == densityScore(q, answerBlockCount)
    IN  IF score > 4 THEN "high" ELSE IF score >= 2 THEN "medium" ELSE "low"

\* lines 137-175
inferDensityLevel(q, answerBlockCount) ==
    LET score == densityScore(q, answerBlockCount)
    IN  IF score >= 4 THEN "high" ELSE IF score >= 2 THEN "medium" ELSE "low"

\* the levels a caller may pass: none, the three named ones, an unnamed
\* string, the empty string, null and a number
LevelArgs ==
    {Undefined, Str("low"), Str("medium"), Str("high"), Str("ultra"), Str(""),
     JsNull, Num("3")}
\* questions around the thresholds of the length score
Questions ==
    {Question(p, m, l, k) : p \in {0, 9, 10, 19, 20}, m \in {0, 1}, l \in {0, 1},
                            k \in {0, 1, 2}}
BlockCountArgs == {NotGiven} \cup {Given(n) : n \in {3, 4, 5, 6}}

DensityCall(fn, args, out) == [pc |-> "returned", fn |-> fn, args |-> args, out |-> out]

InitDensity ==
    TrackerAtRest /\ DensityAtRest /\ ExpandAtRest /\ SidebarAtRest /\ AppAtRest /\ BuildAtRest

GetDensityConfig(level) ==
    /\ density' = DensityCall("getDensityConfig", [level |-> level],
                              getDensityConfig(level))
    /\ UNCHANGED <<trackerVars, expandVars, sidebarVars, appVars, buildVars>>

InferDensityLevel(q, answerBlockCount) ==
    /\ density' = DensityCall("inferDensityLevel",
                              [question |-> q, answerBlockCount |-> answerBlockCount],
                              inferDensityLevel(q, answerBlockCount))
    /\ UNCHANGED <<trackerVars, expandVars, sidebarVars, appVars, buildVars>>

NextDensity ==
    \/ \E level \in LevelArgs : GetDensityConfig(level)
    \/ \E q \in Questions, n \in BlockCountArgs : InferDensityLevel(q, n)

SpecDensity == InitDensity /\ [][NextDensity]_vars

GotConfig == density.pc = "returned" /\ density.fn = "getDensityConfig"

\* C13: getDensityConfig called with a level that is none of 'low', 'medium'
\* and 'high' returns the medium preset, as it does when the level is missing.
C13_UnknownLevelIsMedium ==
    (GotConfig /\ density.args.level \notin {Str(l) : l \in DensityLevels})
        => density.out = DENSITY_PRESETS["medium"]

GotLevel == density.pc = "returned" /\ density.fn = "inferDensityLevel"

Points(cond, n) == IF cond THEN n ELSE 0
WordCount(q) == q.plain + q.multi + q.list
\* the additive score as documented
DocumentedScore(q, count) ==
    (IF WordCount(q) > 20 THEN 2 ELSE Points(WordCount(q) > 10, 1))
    + Points(q.marks > 1, 2)
    + Points(q.multi >= 1, 1)
    + Points(q.list >= 1, 1)
    + (IF count # NotGiven /\ count[1] >= 6 THEN 2
       ELSE Points(count # NotGiven /\ count[1] >= 4, 1))

\* C22: inferDensityLevel returns 'high' iff the documented score is at
\* least 4, 'medium' iff it is 2 or 3 and 'low' iff it is at most 1; the
\* level returned is the one the function gives for those inputs.
C22_LevelByScore ==
    GotLevel =>
        LET score == DocumentedScore(density.args.question, density.args.answerBlockCount)
        IN  /\ density.out \in DensityLevels
            /\ density.out = "high" <=> score >= 4
            /\ density.out = "medium" <=> score \in {2, 3}
            /\ density.out = "low" <=> score <= 1
            /\ density.out =
                 inferDensityLevel(density.args.question, density.args.answerBlockCount)

\* C22 witness: eleven words, one of them 'and', two question marks and no
\* block count score exactly 4 and give 'high'
C22_Witness ==
    /\ GotLevel
    /\ density.args.question = Question(10, 1, 0, 2)
    /\ density.args.answerBlockCount = NotGiven
    /\ density.out = "high"

\* the presets as documented; minSimilarity in hundredths
DocumentedPreset(level) ==
    CASE level = "low" ->
           [exaNumResults |-> 6,
            directSourcesPerBlock |-> [min |-> 1, target |-> 2, max |-> 4],
            secondarySources |->
                [topSourcesToProcess |-> 3, conceptsPerSource |-> 2, maxTotalConcepts |-> 15],
            semanticEdges |-> [minSimilarity |-> 65, topK |-> 4, maxEdges |-> 40]]
      [] level = "medium" ->
           [exaNumResults |-> 10,
            directSourcesPerBlock |-> [min |-> 1, target |-> 4, max |-> 6],
            secondarySources |->
                [topSourcesToProcess |-> 5, conceptsPerSource |-> 3, maxTotalConcepts |-> 30],
            semanticEdges |-> [minSimilarity |-> 60, topK |-> 6, maxEdges |-> 80]]
      [] level = "high" ->
           [exaNumResults |-> 12,
            directSourcesPerBlock |-> [min |-> 1, target |-> 5, max |-> 8],
            secondarySources |->
                [topSourcesToProcess |-> 8, conceptsPerSource |-> 4, maxTotalConcepts |-> 40],
            semanticEdges |-> [minSimilarity |-> 55, topK |-> 8, maxEdges |-> 120]]

\* C23: getDensityConfig returns the documented preset for 'low', 'medium'
\* and 'high', and the medium preset when called without a level.
C23_DocumentedPresets ==
    GotConfig =>
        /\ \A l \in DensityLevels :
             density.args.level = Str(l) => density.out = DocumentedPreset(l)
        /\ density.args.level = Undefined => density.out = DocumentedPreset("medium")

\* C23 witness: a call without a level has returned a preset of ten results
C23_Witness ==
    /\ GotConfig
    /\ density.args.level = Undefined
    /\ density.out.exaNumResults = 10
    /\ density.out.semanticEdges.maxEdges = 80

----------------------------------------------------------------------------
(* agents/expandSourceAgent and routes/expandSourceRoute.ts *)

\* how many concepts an answer of the collaborator holds at most
MaxConcepts == 2

\* a property read: undefined for a property the object does not have
Get(o, k) == IF k \in DOMAIN o THEN o[k] ELSE Undefined

Object(fields) == [t |-> "object", v |-> "[object Object]"] @@ fields
Array(items) == [t |-> "object", v |-> "array", items |-> items]
IsArray(x) == x.t = "object" /\ x.v = "array"
ErrorObject(message) == [t |-> "object", v |-> "Error", message |-> message]
\* error instanceof Error ? error.message : 'Unknown error'
errorMsg(error) == IF error.v = "Error" THEN error.message ELSE "Unknown error"

Thrown(message) == [ok |-> FALSE, message |-> message]
Returned(value) == [ok |-> TRUE, value |-> value]

\* lines 100-111 and 113-118 of the agent: one concept of the answer, kept
\* (as a one-element list) or skipped (as the empty list)
validateConcept(concept) ==
    IF ~Truthy(concept) \/ concept.t # "object" THEN <<>>
    ELSE IF Get(concept, "title").t # "string" \/ Get(concept, "text").t # "string"
    THEN <<>>
    ELSE << [title |-> Get(concept, "title"),
             text |-> Get(concept, "text"),
             short_label |-> IF Get(concept, "short_label").t = "string"
                             THEN Get(concept, "short_label")
                             ELSE Get(concept, "title"),
             importance |-> IF Get(concept, "importance").t = "number"
                            THEN Get(concept, "importance")
                            ELSE Undefined] >>

\* lines 92-119: the loop over payload.concepts
RECURSIVE validateConcepts(_)
validateConcepts(items) ==
    IF items = <<>> THEN <<>>
    ELSE validateConcept(Head(items)) \o validateConcepts(Tail(items))

\* variant: an answer without a concepts array counts as no concepts
validateConceptsResponse_Lenient(response) ==
    IF ~Truthy(response) \/ response.t # "object" \/ ~IsArray(Get(response, "concepts"))
    THEN Returned(<<>>)
    ELSE Returned(validateConcepts(Get(response, "concepts").items))

\* lines 80-120
validateConceptsResponse(response) ==
    IF ~Truthy(response) \/ response.t # "object"
    THEN Thrown("Invalid response: not an object")
    ELSE IF ~IsArray(Get(response, "concepts"))
    THEN Thrown("Invalid response: concepts is not an array")
    ELSE Returned(validateConcepts(Get(response, "concepts").items))

\* variant: the key is not looked at
expandSourceAgentStart_NoKeyCheck(key, source, densityLevel) ==
    Returned([title |-> source.title.v,
              conceptCount |->
                  getDensityConfig(densityLevel).secondarySources.conceptsPerSource])

\* lines 194-228, up to the await: a throw, or the call of exaClient.answer.
\* exaClient is null exactly when the key is not set (line 13), so the
\* check of line 206 never fires after that of line 202.
expandSourceAgentStart(key, source, densityLevel) ==
    LET level == IF densityLevel = Undefined THEN Str(DEFAULT_DENSITY) ELSE densityLevel
        densityConfig == getDensityConfig(level)
    IN  IF ~key THEN Thrown("EXA_API_KEY not configured")
        ELSE IF ~Truthy(source.title) \/ ~Truthy(source.url) \/ ~Truthy(source.content)
        THEN Thrown("Source must have title, url, and content")
        ELSE IF densityConfig = Undefined
        THEN Thrown("Cannot read properties of undefined (reading 'secondarySources')")
        ELSE Returned([title |-> source.title.v,
                       conceptCount |-> densityConfig.secondarySources.conceptsPerSource])

\* lines 225-242, from the await on: what exaClient.answer settled with
expandSourceAgentFinish(outcome) ==
    LET r == IF outcome.kind = "rejects" THEN Thrown(errorMsg(outcome.error))
             ELSE IF ~Truthy(outcome.response)
             THEN Thrown("Cannot read properties of undefined (reading 'answer')")
             ELSE validateConceptsResponse(Get(outcome.response, "answer"))
    IN  IF r.ok THEN r ELSE Thrown("Failed to extract concepts: " \o r.message)

\* variant: any string is taken as a level
validateDensityLevel_PassThrough(level) ==
    IF level.t = "string" THEN level ELSE Str(DEFAULT_DENSITY)

\* route, lines 56-61
validateDensityLevel(level) ==
    IF level.t = "string" /\ level.v \in {"low", "medium", "high"}
    THEN level
    ELSE Str(DEFAULT_DENSITY)

Response(status, body) == [status |-> status, body |-> body]
NoResponse == [status |-> 0]
BadRequest(error, message) == Response(400, [error |-> error, message |-> message])

\* !x || typeof x !== 'string'
MissingOrInvalid(x) == ~Truthy(x) \/ x.t # "string"

\* variant: the fields are checked for their type only
validateBody_TypeOnly(body) ==
    IF body.title.t # "string"
    THEN BadRequest("Missing or invalid \"title\" field",
                    "Request must include a string \"title\" field")
    ELSE IF body.url.t # "string"
    THEN BadRequest("Missing or invalid \"url\" field",
                    "Request must include a string \"url\" field")
    ELSE IF body.content.t # "string"
    THEN BadRequest("Missing or invalid \"content\" field",
                    "Request must include a string \"content\" field with the source text")
    ELSE NoResponse

\* route, lines 89-119: the response of the first check that fails
validateBody(body) ==
    IF MissingOrInvalid(body.title)
    THEN BadRequest("Missing or invalid \"title\" field",
                    "Request must include a string \"title\" field")
    ELSE IF MissingOrInvalid(body.url)
    THEN BadRequest("Missing or invalid \"url\" field",
                    "Request must include a string \"url\" field")
    ELSE IF MissingOrInvalid(body.content)
    THEN BadRequest("Missing or invalid \"content\" field",
                    "Request must include a string \"content\" field with the source text")
    ELSE IF body.content.v = ""
    THEN BadRequest("Empty content", "The \"content\" field cannot be empty")
    ELSE NoResponse

\* route, lines 137-152
onSuccess(concepts, body, densityLevel, latencyMs) ==
    Response(200, [concepts |-> concepts,
                   meta |-> [latencyMs |-> latencyMs,
                             densityLevel |-> densityLevel.v,
                             sourceTitle |-> body.title.v,
                             sourceUrl |-> body.url.v]])

\* route, lines 153-166: the catch block
onError(thrown, latencyMs) ==
    Response(500, [error |-> "Concept extraction failed",
                   message |-> thrown.message,
                   meta |-> [latencyMs |-> latencyMs]])

\* what a request field may hold: nothing, the empty string, a string, a number
FieldArgs == {Undefined, Str(""), Str("x"), Num("7")}
DensityLevelArgs ==
    {Undefined, Str("low"), Str("medium"), Str("high"), Str("ultra"), Num("3")}
Bodies ==
    [title : FieldArgs, url : FieldArgs, content : FieldArgs,
     densityLevel : DensityLevelArgs]

RawConcept(title, text, short_label, importance) ==
    Object([title |-> title, text |-> text, short_label |-> short_label,
            importance |-> importance])
\* concepts as the collaborator may return them: complete, without label
\* and importance, with those two of the wrong type, with an empty title,
\* with an empty text, without title, with a text that is no string, null
RawConcepts ==
    {RawConcept(Str("A"), Str("a"), Str("tag"), Num("0.8")),
     Object([title |-> Str("B"), text |-> Str("b")]),
     RawConcept(Str("C"), Str("c"), Num("1"), Str("high")),
     RawConcept(Str(""), Str("d"), Undefined, Num("0.5")),
     RawConcept(Str("E"), Str(""), Str("tag"), Undefined),
     Object([text |-> Str("f")]),
     RawConcept(Str("G"), Num("1"), Str("tag"), Num("0.1")),
     JsNull}
ConceptLists == UNION {[1..n -> RawConcepts] : n \in 0..MaxConcepts}

Rejects(error) == [kind |-> "rejects", error |-> error]
Resolves(response) == [kind |-> "resolves", response |-> response]
\* how exaClient.answer may settle
ExaOutcomes ==
    {Rejects(ErrorObject("fetch failed")), Rejects(Str("boom")), Resolves(Undefined)}
    \cup {Resolves(Object([answer |-> a])) :
            a \in {Undefined, JsNull, Str("text"), Object([note |-> Str("n")]),
                   Object([concepts |-> Str("none")])}}
    \cup {Resolves(Object([answer |-> Object([concepts |-> Array(l)])])) :
            l \in ConceptLists}
NoOutcome == [kind |-> "none"]

\* Date.now() is read within one TimeStep of the start of the server
Elapsed == {0, TimeStep}
ExpandMaxTime == TimeStep

Awaiting(body, requestStart, densityLevel) ==
    [pc |-> "awaiting", body |-> body, requestStart |-> requestStart,
     densityLevel |-> densityLevel]
Responded(body, requestStart, outcome, res) ==
    [pc |-> "responded", body |-> body, requestStart |-> requestStart,
     outcome |-> outcome, res |-> res]

InitExpand ==
    /\ TrackerAtRest /\ DensityAtRest /\ SidebarAtRest /\ AppAtRest /\ BuildAtRest
    /\ exaApiKey \in BOOLEAN
    /\ handler = IdleHandler
    /\ exaCalls = <<>>

\* route, lines 82-135, with the agent up to its await
HandleExpandSource(body) ==
    /\ handler.pc = "idle"
    /\ LET requestStart == now
           bad == validateBody(body)
           densityLevel == validateDensityLevel(body.densityLevel)
           started == expandSourceAgentStart(exaApiKey,
                          [title |-> body.title, url |-> body.url,
                           content |-> body.content], densityLevel)
       IN  IF bad # NoResponse
           THEN /\ handler' = Responded(body, requestStart, NoOutcome, bad)
                /\ exaCalls' = <<>>
           ELSE IF ~started.ok
           THEN /\ handler' = Responded(body, requestStart, NoOutcome,
                                        onError(started, now - requestStart))
                /\ exaCalls' = <<>>
           ELSE /\ handler' = Awaiting(body, requestStart, densityLevel)
                /\ exaCalls' = <<started.value>>
    /\ UNCHANGED <<trackerVars, densityVars, appVars, buildVars, exaApiKey, sidebarVars>>

\* exaClient.answer settles: agent lines 225-242, then route lines 137-166
ExaAnswerSettles(outcome, elapsed) ==
    /\ handler.pc = "awaiting"
    /\ now + elapsed <= ExpandMaxTime
    /\ now' = now + elapsed
    /\ LET r == expandSourceAgentFinish(outcome)
           latencyMs == now' - handler.requestStart
       IN  handler' = Responded(handler.body, handler.requestStart, outcome,
                          IF r.ok
                          THEN onSuccess(r.value, handler.body, handler.densityLevel,
                                         latencyMs)
                          ELSE onError(r, latencyMs))
    /\ UNCHANGED <<jobs, cleanupInterval, last, pending, densityVars, appVars, buildVars, exaApiKey,
                   exaCalls, sidebarVars>>

\* the handler has returned; the server takes the next request
HandlerReturns ==
    /\ handler.pc = "responded"
    /\ handler' = IdleHandler
    /\ UNCHANGED <<trackerVars, densityVars, appVars, buildVars, exaApiKey, exaCalls, sidebarVars>>

NextExpand ==
    \/ \E body \in Bodies : HandleExpandSource(body)
    \/ \E outcome \in ExaOutcomes, elapsed \in Elapsed : ExaAnswerSettles(outcome, elapsed)
    \/ HandlerReturns

SpecExpand == InitExpand /\ [][NextExpand]_vars

----------------------------------------------------------------------------
(* Properties of POST /api/expand/source *)

HasResponded == handler.pc = "responded"
\* a field that is present, a string and not empty
GoodField(x) == x.t = "string" /\ x.v # ""
GoodBody(b) == GoodField(b.title) /\ GoodField(b.url) /\ GoodField(b.content)
FirstBadField(b) ==
    IF ~GoodField(b.title) THEN "title"
    ELSE IF ~GoodField(b.url) THEN "url"
    ELSE IF ~GoodField(b.content) THEN "content"
    ELSE "none"

\* the answer exaClient.answer resolved with, and whether it is an object
\* with a concepts array
AnswerOf(outcome) == Get(outcome.response, "answer")
HasConceptsArray(a) == a.t = "object" /\ a # JsNull /\ IsArray(Get(a, "concepts"))
GotConceptsArray ==
    /\ HasResponded
    /\ handler.outcome.kind = "resolves"
    /\ HasConceptsArray(AnswerOf(handler.outcome))
ReturnedItems == Get(AnswerOf(handler.outcome), "concepts").items

\* C14: a request whose title and url are present and whose content is the
\* empty string gets status 400 with the 'Empty content' error, whose
\* message says the field cannot be empty.
C14_EmptyContentError ==
    (/\ HasResponded
     /\ GoodField(handler.body.title)
     /\ GoodField(handler.body.url)
     /\ handler.body.content = Str(""))
        => /\ handler.res.status = 400
           /\ handler.res.body.error = "Empty content"
           /\ handler.res.body.message = "The \"content\" field cannot be empty"

NonEmptyString(x) == x.t = "string" /\ x.v # ""
KeptConcept(c) ==
    /\ c.t = "object" /\ c # JsNull
    /\ NonEmptyString(Get(c, "title"))
    /\ NonEmptyString(Get(c, "text"))
Labelled(c) ==
    [title |-> Get(c, "title"),
     text |-> Get(c, "text"),
     short_label |-> IF Get(c, "short_label").t = "string"
                     THEN Get(c, "short_label") ELSE Get(c, "title"),
     importance |-> IF Get(c, "importance").t = "number"
                    THEN Get(c, "importance") ELSE Undefined]
LabelledAll(items) == [i \in 1..Len(items) |-> Labelled(items[i])]

\* C16: of the concepts returned, exactly those with a non-empty string title
\* and a non-empty string text are kept, in their order; each has as
\* short_label the given string or else the title, and as importance the
\* given number or else undefined.
C16_KeepsNonEmptyConcepts ==
    GotConceptsArray =>
        /\ handler.res.status = 200
        /\ handler.res.body.concepts = LabelledAll(SelectSeq(ReturnedItems, KeptConcept))

\* C17: a request whose title, url or content is missing, empty or not a
\* string gets status 400 naming the first such field in the order title,
\* url, content, and exaClient.answer is not called for it.
C17_BadFieldIs400 ==
    (handler.pc # "idle" /\ FirstBadField(handler.body) # "none") =>
        /\ HasResponded
        /\ handler.res.status = 400
        /\ handler.res.body.error =
               "Missing or invalid \"" \o FirstBadField(handler.body) \o "\" field"
        /\ exaCalls = <<>>

\* C17 witness: a request with a title, a url that is a number and no content
\* has been answered with the 400 about the url, on a server that has the key
C17_Witness ==
    /\ HasResponded
    /\ exaApiKey
    /\ handler.body.title = Str("x")
    /\ handler.body.url = Num("7")
    /\ handler.body.content = Undefined
    /\ handler.res.status = 400
    /\ handler.res.body.error = "Missing or invalid \"url\" field"

ExtractionFailed ==
    \/ handler.outcome.kind = "rejects"
    \/ handler.outcome.kind = "resolves" /\ ~HasConceptsArray(AnswerOf(handler.outcome))

\* C18: a request with good title, url and content whose extraction fails
\* (exaClient.answer rejects, or resolves with something that is not an
\* object with a concepts array) gets status 500, never 200, with a body of
\* exactly error, message and meta, meta holding exactly latencyMs, the time
\* since the request arrived.
C18_FailedExtractionIs500 ==
    /\ handler.pc \in {"idle", "awaiting", "responded"}
    /\ (HasResponded /\ GoodBody(handler.body) /\ ExtractionFailed) =>
          /\ handler.res.status = 500
          /\ DOMAIN handler.res.body = {"error", "message", "meta"}
          /\ handler.res.body.error = "Concept extraction failed"
          /\ handler.res.body.message # ""
          /\ DOMAIN handler.res.body.meta = {"latencyMs"}
          /\ handler.res.body.meta.latencyMs = now - handler.requestStart
          /\ handler.res.body.meta.latencyMs >= 0

\* C18 witness: the collaborator resolved with an answer whose concepts is
\* no array, one TimeStep after the request came in, and the 500 went out
C18_Witness ==
    /\ HasResponded
    /\ handler.outcome = Resolves(Object([answer |-> Object([concepts |-> Str("none")])]))
    /\ handler.res.status = 500
    /\ handler.res.body.meta.latencyMs = TimeStep

\* C19: without the key, a request with good title, url and content gets
\* status 500 whose message is 'EXA_API_KEY not configured', at once and
\* without a call of exaClient.answer.
C19_NoKeyIs500 ==
    (~exaApiKey /\ handler.pc # "idle" /\ GoodBody(handler.body)) =>
        /\ HasResponded
        /\ handler.res.status = 500
        /\ handler.res.body.message = "EXA_API_KEY not configured"
        /\ exaCalls = <<>>

\* C19 witness: a good request with a named level has been refused for the key
C19_Witness ==
    /\ ~exaApiKey
    /\ HasResponded
    /\ GoodBody(handler.body)
    /\ handler.body.densityLevel = Str("high")
    /\ handler.res.status = 500
    /\ handler.res.body.error = "Concept extraction failed"

NamedLevels == {Str("low"), Str("medium"), Str("high")}
ResolvedLevel(level) == IF level \in NamedLevels THEN level.v ELSE "medium"

\* C20: for a good request on a server with the key, the level resolved from
\* densityLevel is the given one if it is 'low', 'medium' or 'high' and
\* 'medium' otherwise; exaClient.answer is asked for that preset's
\* conceptsPerSource concepts and a 200 response reports that level.
C20_LevelResolves ==
    (exaApiKey /\ handler.pc # "idle" /\ GoodBody(handler.body)) =>
        LET level == ResolvedLevel(handler.body.densityLevel)
        IN  /\ Len(exaCalls) = 1
            /\ exaCalls[1].conceptCount =
                   DENSITY_PRESETS[level].secondarySources.conceptsPerSource
            /\ (HasResponded /\ handler.res.status = 200) =>
                   handler.res.body.meta.densityLevel = level

\* C20 witness: a request whose densityLevel is a number has been answered
\* with 200 and 'medium', after three concepts were asked for
C20_Witness ==
    /\ HasResponded
    /\ handler.body.densityLevel = Num("3")
    /\ handler.res.status = 200
    /\ handler.res.body.meta.densityLevel = "medium"
    /\ exaCalls[1].conceptCount = 3

----------------------------------------------------------------------------
(* components/Sidebar.tsx: expanding a direct source *)

\* how many expand-source requests the client sends
MaxRequests == 3

DirectSourceNode(id, url, full_text) ==
    [id |-> Str(id), type |-> "direct_source", url |-> url, full_text |-> full_text]
OtherNode(id, type) ==
    [id |-> Str(id), type |-> type, url |-> Undefined, full_text |-> Undefined]
\* the nodes of the graph on show: two sources with url and text, one source
\* without text, one answer block
GraphNodes ==
    {DirectSourceNode("s1", Str("u1"), Str("text1")),
     DirectSourceNode("s2", Str("u2"), Str("text2")),
     DirectSourceNode("s3", Str("u3"), Undefined),
     OtherNode("b1", "answer_block")}
\* props.edges: the answer block cites the first source
GraphEdges == {[from |-> Str("b1"), to |-> Str("s1"), relation |-> "supports"]}

\* node?.id ?? null
NodeId(n) == IF n = Null THEN Null ELSE n.id

Concept(title, importance) ==
    [title |-> title, text |-> "about " \o title, short_label |-> title,
     importance |-> importance]
\* what the service may answer with status 200
DataArgs ==
    {[meta |-> "only"],
     [concepts |-> <<>>],
     [concepts |-> <<Concept("A", 8), Concept("B", 5)>>]}
\* what it may answer with another status: no JSON, a body with an error,
\* a body without
ErrorPayloadArgs == {Null, [error |-> "Concept extraction failed"], [detail |-> "x"]}

Fetch(n, sourceRequestId, pc) ==
    [n |-> n, sourceRequestId |-> sourceRequestId, pc |-> pc]
Sent(source) == [ev |-> "fetch", source |-> source, count |-> 0]
Added(source, count) == [ev |-> "add", source |-> source, count |-> count]
SentSoFar == Cardinality({i \in DOMAIN sourceLog : sourceLog[i].ev = "fetch"})

\* line 183
isActiveRequest(f) == latestNodeIdRef = f.sourceRequestId

\* lines 231-233
answerBlockIds(source) ==
    {e.from : e \in {x \in GraphEdges : x.to = source /\ x.relation = "supports"}}

\* variant: the id of a node is told by its position alone
newNodes_IdByPosition(f, concepts) ==
    {[id |-> Str("secondary_" \o ToString(i)),
      type |-> "secondary_source",
      label |-> concepts[i].title,
      shortLabel |-> concepts[i].short_label,
      layer |-> 3,
      fullText |-> concepts[i].text,
      importance |-> concepts[i].importance,
      parentSourceId |-> f.sourceRequestId,
      relatedBlockIds |-> answerBlockIds(f.sourceRequestId)] : i \in DOMAIN concepts}

\* lines 236-251; uuidv4() gives an id no other node has: here the number of
\* the request and the position of the concept
newNodes(f, concepts) ==
    {[id |-> Str("secondary_" \o ToString(f.n) \o "_" \o ToString(i)),
      type |-> "secondary_source",
      label |-> concepts[i].title,
      shortLabel |-> concepts[i].short_label,
      layer |-> 3,
      fullText |-> concepts[i].text,
      importance |-> concepts[i].importance,
      parentSourceId |-> f.sourceRequestId,
      relatedBlockIds |-> answerBlockIds(f.sourceRequestId)] : i \in DOMAIN concepts}

\* lines 254-261
newEdges(f, nodes) ==
    {[from |-> f.sourceRequestId, to |-> x.id, relation |-> "underpins", weight |-> 1] :
        x \in nodes}

\* the parent's onAddNodesAndEdges
onAddNodesAndEdges(g, nodes, edges) ==
    [nodes |-> g.nodes \cup nodes, edges |-> g.edges \cup edges]

InitSidebar ==
    TrackerAtRest /\ DensityAtRest /\ ExpandAtRest /\ SidebarAtRest /\ AppAtRest /\ BuildAtRest

\* the parent passes another node; lines 49-58: the effect on [node?.id]
SelectNode(n) ==
    /\ NodeId(n) # NodeId(node)
    /\ node' = n
    /\ latestNodeIdRef' = NodeId(n)
    /\ isExpandingSource' = FALSE
    /\ sourceExpandError' = Null
    /\ hasExpandedSource' = FALSE
    /\ reasoning' = NoReasoning
    /\ UNCHANGED <<trackerVars, densityVars, appVars, buildVars, expandVars, fetches, graph, sourceLog>>

\* lines 325-333: the Expand button is on show and not disabled
ExpandButtonEnabled ==
    /\ node # Null
    /\ node.type = "direct_source"
    /\ ~hasExpandedSource
    /\ ~(isExpandingSource \/ ~Truthy(node.url) \/ ~Truthy(node.full_text))

\* a click on Expand: handleExpandSource, lines 185-199, up to the fetch
ClickExpand ==
    /\ ExpandButtonEnabled
    /\ SentSoFar < MaxRequests
    /\ IF isExpandingSource \/ hasExpandedSource
       THEN UNCHANGED <<isExpandingSource, sourceExpandError, fetches, sourceLog>>
       ELSE IF ~Truthy(node.url) \/ ~Truthy(node.full_text)
       THEN /\ sourceExpandError' =
                   Str("Source is missing URL or content and cannot be expanded.")
            /\ UNCHANGED <<isExpandingSource, fetches, sourceLog>>
       ELSE /\ isExpandingSource' = TRUE
            /\ sourceExpandError' = Null
            /\ fetches' = fetches \cup {Fetch(SentSoFar + 1, node.id, "fetch")}
            /\ sourceLog' = Append(sourceLog, Sent(node.id))
    /\ UNCHANGED <<trackerVars, densityVars, appVars, buildVars, expandVars, node, latestNodeIdRef,
                   hasExpandedSource, reasoning, graph>>

\* the fetch settles: lines 201-217 or the catch, and the finally
FetchSettles(f, outcome) ==
    /\ f \in fetches
    /\ f.pc = "fetch"
    /\ IF outcome = "rejects"
       THEN /\ sourceExpandError' = IF isActiveRequest(f)
                                    THEN Str("Unable to reach the expand service.")
                                    ELSE sourceExpandError
            /\ isExpandingSource' = FALSE
            /\ fetches' = fetches \ {f}
       ELSE IF ~isActiveRequest(f)
       THEN /\ isExpandingSource' = FALSE
            /\ fetches' = fetches \ {f}
            /\ UNCHANGED sourceExpandError
       ELSE /\ fetches' = (fetches \ {f}) \cup
                   {Fetch(f.n, f.sourceRequestId,
                          IF outcome = "ok" THEN "json" ELSE "errorJson")}
            /\ UNCHANGED <<isExpandingSource, sourceExpandError>>
    /\ UNCHANGED <<trackerVars, densityVars, appVars, buildVars, expandVars, node, latestNodeIdRef,
                   hasExpandedSource, reasoning, graph, sourceLog>>

\* the body of a response that is not ok has been read: lines 219-225
ErrorJsonSettles(f, errorPayload) ==
    /\ f \in fetches
    /\ f.pc = "errorJson"
    /\ sourceExpandError' =
           IF ~isActiveRequest(f) THEN sourceExpandError
           ELSE IF errorPayload # Null /\ "error" \in DOMAIN errorPayload
           THEN Str(errorPayload.error)
           ELSE Str("Unable to expand source right now.")
    /\ isExpandingSource' = FALSE
    /\ fetches' = fetches \ {f}
    /\ UNCHANGED <<trackerVars, densityVars, appVars, buildVars, expandVars, node, latestNodeIdRef,
                   hasExpandedSource, reasoning, graph, sourceLog>>

\* the body of an ok response has been read: lines 227-266
JsonSettles(f, data) ==
    /\ f \in fetches
    /\ f.pc = "json"
    /\ IF ~isActiveRequest(f)
       THEN UNCHANGED <<sourceExpandError, hasExpandedSource, graph, sourceLog>>
       ELSE IF "concepts" \notin DOMAIN data \/ data.concepts = <<>>
       THEN /\ sourceExpandError' = Str("No concepts were extracted from the source.")
            /\ UNCHANGED <<hasExpandedSource, graph, sourceLog>>
       ELSE /\ graph' = onAddNodesAndEdges(graph, newNodes(f, data.concepts),
                                           newEdges(f, newNodes(f, data.concepts)))
            /\ hasExpandedSource' = TRUE
            /\ sourceLog' = Append(sourceLog, Added(f.sourceRequestId, Len(data.concepts)))
            /\ UNCHANGED sourceExpandError
    /\ isExpandingSource' = FALSE
    /\ fetches' = fetches \ {f}
    /\ UNCHANGED <<trackerVars, densityVars, appVars, buildVars, expandVars, node, latestNodeIdRef, reasoning>>

\* response.json() rejects: the catch, lines 267-269, and the finally
JsonRejects(f) ==
    /\ f \in fetches
    /\ f.pc = "json"
    /\ sourceExpandError' = IF isActiveRequest(f)
                            THEN Str("Unable to reach the expand service.")
                            ELSE sourceExpandError
    /\ isExpandingSource' = FALSE
    /\ fetches' = fetches \ {f}
    /\ UNCHANGED <<trackerVars, densityVars, appVars, buildVars, expandVars, node, latestNodeIdRef,
                   hasExpandedSource, reasoning, graph, sourceLog>>

NextSidebar ==
    \/ \E n \in GraphNodes \cup {Null} : SelectNode(n)
    \/ ClickExpand
    \/ \E f \in fetches, outcome \in {"rejects", "ok", "notOk"} : FetchSettles(f, outcome)
    \/ \E f \in fetches, errorPayload \in ErrorPayloadArgs : ErrorJsonSettles(f, errorPayload)
    \/ \E f \in fetches, data \in DataArgs : JsonSettles(f, data)
    \/ \E f \in fetches : JsonRejects(f)

SpecSidebar == InitSidebar /\ [][NextSidebar]_vars

\* C15: once a source has been expanded, no further expand request is sent
\* for it and nothing further is added to the graph for it, whatever nodes
\* are selected in between.
C15_ExpandedOnce ==
    \A i \in DOMAIN sourceLog : \A j \in DOMAIN sourceLog :
        (i < j /\ sourceLog[i].ev = "add") => sourceLog[j].source # sourceLog[i].source

\* the step just taken called onAddNodesAndEdges
AddStep ==
    /\ Len(sourceLog') = Len(sourceLog) + 1
    /\ sourceLog'[Len(sourceLog')].ev = "add"
LastAdded == sourceLog'[Len(sourceLog')]
SupportedBlocks(source) ==
    {e.from : e \in {y \in GraphEdges : y.relation = "supports" /\ y.to = source}}

\* C21: the graph changes only by a successful expansion, which removes and
\* alters nothing and adds, for each concept returned, one secondary_source
\* node of layer 3 with an id no node has yet, the expanded source as
\* parentSourceId and that source's supporting blocks as relatedBlockIds,
\* and for each such node one 'underpins' edge from the source to it.
C21_ExpansionAdds ==
    [][/\ graph.nodes \subseteq graph'.nodes
       /\ graph.edges \subseteq graph'.edges
       /\ graph' # graph => AddStep
       /\ AddStep =>
            LET source == LastAdded.source
                nodes == graph'.nodes \ graph.nodes
                edges == graph'.edges \ graph.edges
                usedIds == {x.id : x \in graph.nodes \cup GraphNodes}
            IN  /\ Cardinality(nodes) = LastAdded.count
                /\ Cardinality(edges) = LastAdded.count
                /\ \A x \in nodes :
                     /\ x.type = "secondary_source"
                     /\ x.layer = 3
                     /\ x.id \notin usedIds
                     /\ x.parentSourceId = source
                     /\ x.relatedBlockIds = SupportedBlocks(source)
                     /\ Cardinality({e \in edges : e.to = x.id}) = 1
                /\ \A e \in edges :
                     /\ e.from = source
                     /\ e.relation = "underpins"
                     /\ e.to \in {x.id : x \in nodes}
      ]_vars

\* C21 witness: the first source has just been expanded into two nodes that
\* name the answer block, in a graph that held nodes of the second source
C21_Witness ==
    /\ sourceLog # <<>>
    /\ sourceLog[Len(sourceLog)] = Added(Str("s1"), 2)
    /\ \E x \in graph.nodes : x.parentSourceId = Str("s2")
    /\ \E x \in graph.nodes :
         x.parentSourceId = Str("s1") /\ x.relatedBlockIds = {Str("b1")}

InFlightFor(id) == {f \in fetches : f.sourceRequestId = id}

\* C29: for the selected node at most one expand-source request is in
\* flight; within one selection onAddNodesAndEdges is called at most once;
\* a response for a node that is not the selected one adds nothing.
C29_OneRequestPerSelection ==
    [][/\ node' # Null => Cardinality({f \in fetches' : f.sourceRequestId = node'.id}) <= 1
       /\ AddStep => ~hasExpandedSource /\ LastAdded.source = NodeId(node)
      ]_vars

----------------------------------------------------------------------------
(* components/Sidebar.tsx: expanding the reasoning of an answer block *)

AnswerBlockNode(id, fullText) ==
    [id |-> Str(id), type |-> "answer_block", url |-> Undefined,
     full_text |-> Undefined, fullText |-> fullText]
\* two blocks with a reasoning, one whose reasoning is blank
AnswerBlocks ==
    {AnswerBlockNode("b1", "because"), AnswerBlockNode("b2", "since"),
     AnswerBlockNode("b3", " ")}
\* line 87: reasoningText.trim(), on the texts above
trimmedReasoning(n) == IF n.fullText \in {"", " "} THEN "" ELSE n.fullText

\* what POST /expand may answer with status 200
ExpandDataArgs ==
    {[title |-> "t"],
     [title |-> "t", expandedReasoning |-> ""],
     [title |-> "t", expandedReasoning |-> "more"],
     [title |-> "t", expandedReasoning |-> "more", meta |-> [model |-> "m"]],
     [title |-> "t", expandedReasoning |-> "more",
      meta |-> [model |-> "m", latency_ms |-> 12]],
     [title |-> "t", expandedReasoning |-> "more",
      meta |-> [model |-> "", latency_ms |-> 0]]}

\* response.json() rejects
JsonRejected == [rejected |-> TRUE]

\* lines 130-137: the pieces that are joined into expandMeta, or null for none
expandMetaOf(data) ==
    LET meta == IF "meta" \in DOMAIN data THEN data.meta ELSE <<>>
        model == IF "model" \in DOMAIN meta /\ meta.model # ""
                 THEN <<meta.model>> ELSE <<>>
        latency == IF "latency_ms" \in DOMAIN meta
                   THEN <<ToString(meta.latency_ms) \o " ms">> ELSE <<>>
    IN  IF model \o latency = <<>> THEN Null ELSE [joined |-> model \o latency]

\* variant: the expanded text becomes a node of the graph
graphAfterReasoning_AddsNode(g, f, data) ==
    [nodes |-> g.nodes \cup {[id |-> Str("reasoning_" \o ToString(f.n)),
                              type |-> "secondary_source",
                              label |-> data.expandedReasoning,
                              parentSourceId |-> f.sourceRequestId]},
     edges |-> g.edges]

\* lines 128-137: handleExpandReasoning sets component state only; it has no
\* call of onAddNodesAndEdges
graphAfterReasoning(g, f, data) == g

\* the graph and the log once the first source has been expanded
ExpandedGraph ==
    LET f == Fetch(1, Str("s1"), "json")
        nodes == newNodes(f, <<Concept("A", 8), Concept("B", 5)>>)
    IN  onAddNodesAndEdges(NoGraph, nodes, newEdges(f, nodes))
ExpandedLog == <<Sent(Str("s1")), Added(Str("s1"), 2)>>

\* no node selected; the graph untouched, or extended by one expansion
InitReasoning ==
    /\ TrackerAtRest /\ DensityAtRest /\ ExpandAtRest /\ AppAtRest /\ BuildAtRest
    /\ node = Null
    /\ latestNodeIdRef = Null
    /\ isExpandingSource = FALSE
    /\ hasExpandedSource = FALSE
    /\ sourceExpandError = Null
    /\ reasoning = NoReasoning
    /\ fetches = {}
    /\ \/ graph = NoGraph /\ sourceLog = <<>>
       \/ graph = ExpandedGraph /\ sourceLog = ExpandedLog

\* lines 160-168: the Expand button of the block is on show and not disabled
ReasoningButtonEnabled ==
    /\ node # Null
    /\ node.type = "answer_block"
    /\ reasoning.expandedReasoning = Null
    /\ ~(reasoning.isExpanding \/ trimmedReasoning(node) = "")

UnusedNumber == CHOOSE n \in 1..(Cardinality(fetches) + 1) : \A f \in fetches : f.n # n

\* a click on Expand: handleExpandReasoning, lines 92-113, up to the fetch
ClickExpandReasoning ==
    /\ ReasoningButtonEnabled
    /\ Cardinality(fetches) < MaxRequests
    /\ IF reasoning.isExpanding
       THEN UNCHANGED <<reasoning, fetches>>
       ELSE IF trimmedReasoning(node) = ""
       THEN /\ reasoning' = [reasoning EXCEPT
                   !.expandError = Str("Reasoning is empty and cannot be expanded.")]
            /\ UNCHANGED fetches
       ELSE /\ reasoning' = [reasoning EXCEPT !.isExpanding = TRUE, !.expandError = Null]
            /\ fetches' = fetches \cup {Fetch(UnusedNumber, node.id, "expand")}
    /\ UNCHANGED <<trackerVars, densityVars, appVars, buildVars, expandVars, node, latestNodeIdRef,
                   isExpandingSource, hasExpandedSource, sourceExpandError, graph,
                   sourceLog>>

\* the fetch settles: lines 115-121 or the catch, and the finally
ReasoningFetchSettles(f, outcome) ==
    /\ f \in fetches
    /\ f.pc = "expand"
    /\ IF outcome = "rejects"
       THEN /\ reasoning' = [reasoning EXCEPT
                   !.expandError = IF isActiveRequest(f)
                                   THEN Str("Unable to reach the expand service.")
                                   ELSE @,
                   !.isExpanding = FALSE]
            /\ fetches' = fetches \ {f}
       ELSE IF ~isActiveRequest(f)
       THEN /\ reasoning' = [reasoning EXCEPT !.isExpanding = FALSE]
            /\ fetches' = fetches \ {f}
       ELSE /\ fetches' = (fetches \ {f}) \cup
                   {Fetch(f.n, f.sourceRequestId,
                          IF outcome = "ok" THEN "expandJson" ELSE "expandErrorJson")}
            /\ UNCHANGED reasoning
    /\ UNCHANGED <<trackerVars, densityVars, appVars, buildVars, expandVars, node, latestNodeIdRef,
                   isExpandingSource, hasExpandedSource, sourceExpandError, graph,
                   sourceLog>>

\* the body of a response that is not ok has been read: lines 117-121
ReasoningErrorJsonSettles(f, errorPayload) ==
    /\ f \in fetches
    /\ f.pc = "expandErrorJson"
    /\ reasoning' = [reasoning EXCEPT
           !.expandError =
               IF ~isActiveRequest(f) THEN @
               ELSE IF errorPayload # Null /\ "error" \in DOMAIN errorPayload
               THEN Str(errorPayload.error)
               ELSE Str("Unable to expand reasoning right now."),
           !.isExpanding = FALSE]
    /\ fetches' = fetches \ {f}
    /\ UNCHANGED <<trackerVars, densityVars, appVars, buildVars, expandVars, node, latestNodeIdRef,
                   isExpandingSource, hasExpandedSource, sourceExpandError, graph,
                   sourceLog>>

\* the body of an ok response has been read, or reading it failed:
\* lines 124-144
ReasoningJsonSettles(f, data) ==
    /\ f \in fetches
    /\ f.pc = "expandJson"
    /\ IF ~isActiveRequest(f)
       THEN /\ reasoning' = [reasoning EXCEPT !.isExpanding = FALSE]
            /\ UNCHANGED graph
       ELSE IF data = JsonRejected
       THEN /\ reasoning' = [reasoning EXCEPT
                   !.expandError = Str("Unable to reach the expand service."),
                   !.isExpanding = FALSE]
            /\ UNCHANGED graph
       ELSE IF \/ data = Null
               \/ "expandedReasoning" \notin DOMAIN data
               \/ data.expandedReasoning = ""
       THEN /\ reasoning' = [reasoning EXCEPT
                   !.expandError = Str("Expanded reasoning is missing from the response."),
                   !.isExpanding = FALSE]
            /\ UNCHANGED graph
       ELSE /\ reasoning' = [reasoning EXCEPT
                   !.expandedReasoning = Str(data.expandedReasoning),
                   !.expandMeta = expandMetaOf(data),
                   !.isExpanding = FALSE]
            /\ graph' = graphAfterReasoning(graph, f, data)
    /\ fetches' = fetches \ {f}
    /\ UNCHANGED <<trackerVars, densityVars, appVars, buildVars, expandVars, node, latestNodeIdRef,
                   isExpandingSource, hasExpandedSource, sourceExpandError, sourceLog>>

NextReasoning ==
    \/ \E n \in AnswerBlocks \cup {Null} : SelectNode(n)
    \/ ClickExpandReasoning
    \/ \E f \in fetches, outcome \in {"rejects", "ok", "notOk"} :
          ReasoningFetchSettles(f, outcome)
    \/ \E f \in fetches, errorPayload \in ErrorPayloadArgs :
          ReasoningErrorJsonSettles(f, errorPayload)
    \/ \E f \in fetches, data \in ExpandDataArgs \cup {Null, JsonRejected} :
          ReasoningJsonSettles(f, data)

SpecReasoning == InitReasoning /\ [][NextReasoning]_vars

\* C26: no step of a reasoning expansion, be it the click, a success, a
\* failure or a stale response, changes the graph or calls
\* onAddNodesAndEdges; of the Sidebar's state only the expanded text with
\* its meta line, the error and the in-flight flag change.
C26_ReasoningLeavesGraph ==
    [][(fetches' # fetches \/ reasoning' # reasoning) =>
          /\ graph' = graph
          /\ sourceLog' = sourceLog
          /\ (node' = node) =>
                <<isExpandingSource', hasExpandedSource', sourceExpandError'>>
                    = <<isExpandingSource, hasExpandedSource, sourceExpandError>>
      ]_vars

\* C26 witness: the reasoning of the first block is on show with its meta
\* line, while a request for the second block is still out, and the graph
\* holds the nodes of an earlier source expansion
C26_Witness ==
    /\ node # Null
    /\ node.id = Str("b1")
    /\ reasoning.expandedReasoning = Str("more")
    /\ reasoning.expandMeta = [joined |-> <<"m", "12 ms">>]
    /\ \E f \in fetches : f.sourceRequestId = Str("b2")
    /\ graph = ExpandedGraph

----------------------------------------------------------------------------
(***************************************************************************)
(* App.tsx: the loading progress of a question.  handleQuestionSubmit      *)
(* starts a 300 ms interval whose async callback polls /api/progress; the  *)
(* callback is left at each await, so several polls can be in flight and   *)
(* can end after the interval was cleared.  Three counted failures clear   *)
(* the interval and start the synthetic progress, a 100 ms interval.       *)
(* Timer ids are the positive numbers window.setInterval returns; a ref    *)
(* holding null is 0, which the code's truthiness tests treat alike.       *)
(***************************************************************************)

\* how many questions are submitted
MaxQuestions == 2
\* how many polls the polling intervals send in all
MaxPolls == 4

\* data.progress of a progress response
ProgressData == {40, 100}
\* Date.now() - startTime at a callback of the synthetic interval, in ms
ElapsedArgs == {1000, 10000, 20000}
\* line 68
duration == 10000

Timer(id, kind) == [id |-> id, kind |-> kind]

clearInterval(ts, id) == {t \in ts : t.id # id}

setInterval(ts, id, kind) == ts \cup {Timer(id, kind)}

\* lines 54-61, the timers: each ref's interval is cleared if the ref is set
cleanupPolling(ts, pollingRef, syntheticRef) ==
    LET withoutPolling == IF pollingRef # 0 THEN clearInterval(ts, pollingRef) ELSE ts
    IN IF syntheticRef # 0 THEN clearInterval(withoutPolling, syntheticRef)
                          ELSE withoutPolling

Minimum(a, b) == IF a <= b THEN a ELSE b

syntheticProgress_Uncapped(elapsed) == (elapsed * 90) \div duration

\* lines 71-72: Math.min(90, (elapsed / duration) * 90); exact for the
\* elapsed times of ElapsedArgs
syntheticProgress(elapsed) == Minimum(90, (elapsed * 90) \div duration)

switchesToSynthetic_AtTwo(count) == count >= 2

\* lines 89 and 109: the test made after the count was incremented
switchesToSynthetic(count) == count >= 3

PollsEnded == Cardinality({i \in DOMAIN pollLog : pollLog[i] # "cleanup"})
PollsSent == polls.fetch + polls.json + PollsEnded

\* lines 53-63 as a step: both intervals cleared, both refs null, the count 0
CleanupPolling(started) ==
    /\ timers' = cleanupPolling(timers, pollingIntervalRef,
                                syntheticProgressIntervalRef) \cup started
    /\ syntheticProgressIntervalRef' = 0
    /\ pollingFailureCountRef' = 0
    /\ pollLog' = Append(pollLog, "cleanup")

\* lines 86-96 and 106-116: a poll is counted as failed; startSyntheticProgress
\* (lines 66-75) sets its interval without clearing the one its ref holds
PollFailed ==
    /\ pollingFailureCountRef' = pollingFailureCountRef + 1
    /\ pollLog' = Append(pollLog, "failed")
    /\ IF switchesToSynthetic(pollingFailureCountRef + 1)
       THEN /\ pollingIntervalRef' = 0
            /\ timers' = setInterval(
                   IF pollingIntervalRef # 0
                   THEN clearInterval(timers, pollingIntervalRef) ELSE timers,
                   nextTimer, "synthetic")
            /\ syntheticProgressIntervalRef' = nextTimer
            /\ nextTimer' = nextTimer + 1
       ELSE UNCHANGED <<pollingIntervalRef, timers, syntheticProgressIntervalRef,
                        nextTimer>>

InitPolling ==
    TrackerAtRest /\ DensityAtRest /\ ExpandAtRest /\ SidebarAtRest /\ AppAtRest /\ BuildAtRest

\* lines 121-140: the handler up to its await of askQuestion
HandleQuestionSubmit ==
    /\ questions.asked < MaxQuestions
    /\ isLoading' = TRUE
    /\ loadingProgress' = 0
    /\ CleanupPolling({Timer(nextTimer, "polling")})
    /\ pollingIntervalRef' = nextTimer
    /\ nextTimer' = nextTimer + 1
    /\ questions' = [questions EXCEPT !.asked = @ + 1, !.asking = @ + 1]
    /\ UNCHANGED <<trackerVars, densityVars, expandVars, sidebarVars, buildVars, polls>>

\* lines 81-83: a callback of the polling interval sends its request
PollTick ==
    /\ \E t \in timers : t.kind = "polling"
    /\ PollsSent < MaxPolls
    /\ polls' = [polls EXCEPT !.fetch = @ + 1]
    /\ UNCHANGED <<trackerVars, densityVars, expandVars, sidebarVars, buildVars,
                   loadingProgress, isLoading, pollingIntervalRef,
                   pollingFailureCountRef, syntheticProgressIntervalRef, timers,
                   nextTimer, questions, pollLog>>

\* lines 83-85 and 100: an OK response, the callback now awaits response.json()
ProgressFetchOk ==
    /\ polls.fetch > 0
    /\ polls' = [polls EXCEPT !.fetch = @ - 1, !.json = @ + 1]
    /\ UNCHANGED <<trackerVars, densityVars, expandVars, sidebarVars, buildVars,
                   loadingProgress, isLoading, pollingIntervalRef,
                   pollingFailureCountRef, syntheticProgressIntervalRef, timers,
                   nextTimer, questions, pollLog>>

\* lines 85-98: a response that is not OK
ProgressFetchNotOk ==
    /\ polls.fetch > 0
    /\ polls' = [polls EXCEPT !.fetch = @ - 1]
    /\ PollFailed
    /\ UNCHANGED <<trackerVars, densityVars, expandVars, sidebarVars, buildVars,
                   loadingProgress, isLoading, questions>>

\* lines 83 and 105-117: fetch rejects
ProgressFetchRejects ==
    /\ polls.fetch > 0
    /\ polls' = [polls EXCEPT !.fetch = @ - 1]
    /\ PollFailed
    /\ UNCHANGED <<trackerVars, densityVars, expandVars, sidebarVars, buildVars,
                   loadingProgress, isLoading, questions>>

\* lines 100-104: the body of an OK response is read
ProgressJsonSettles ==
    /\ polls.json > 0
    /\ \E progress \in ProgressData : loadingProgress' = progress
    /\ polls' = [polls EXCEPT !.json = @ - 1]
    /\ pollingFailureCountRef' = 0
    /\ pollLog' = Append(pollLog, "ok")
    /\ UNCHANGED <<trackerVars, densityVars, expandVars, sidebarVars, buildVars, isLoading,
                   pollingIntervalRef, syntheticProgressIntervalRef, timers,
                   nextTimer, questions>>

\* lines 100 and 105-117: response.json() rejects
ProgressJsonRejects ==
    /\ polls.json > 0
    /\ polls' = [polls EXCEPT !.json = @ - 1]
    /\ PollFailed
    /\ UNCHANGED <<trackerVars, densityVars, expandVars, sidebarVars, buildVars,
                   loadingProgress, isLoading, questions>>

\* lines 70-74: a callback of a synthetic interval that was not cleared
SyntheticTick ==
    /\ \E t \in timers : t.kind = "synthetic"
    /\ \E elapsed \in ElapsedArgs : loadingProgress' = syntheticProgress(elapsed)
    /\ UNCHANGED <<trackerVars, densityVars, expandVars, sidebarVars, buildVars, isLoading,
                   pollingIntervalRef, pollingFailureCountRef,
                   syntheticProgressIntervalRef, timers, nextTimer, polls,
                   questions, pollLog>>

\* lines 144-160: askQuestion resolves and the answer is handled
AskQuestionResolves ==
    /\ questions.asking > 0
    /\ CleanupPolling({})
    /\ pollingIntervalRef' = 0
    /\ loadingProgress' = 100
    /\ questions' = [questions EXCEPT !.asking = @ - 1, !.hiding = @ + 1]
    /\ UNCHANGED <<trackerVars, densityVars, expandVars, sidebarVars, buildVars, isLoading,
                   nextTimer, polls>>

\* lines 144 and 184-203: askQuestion rejects; the handler now awaits the demo data
AskQuestionRejects ==
    /\ questions.asking > 0
    /\ CleanupPolling({})
    /\ pollingIntervalRef' = 0
    /\ loadingProgress' = 100
    /\ questions' = [questions EXCEPT !.asking = @ - 1, !.loadingDemo = @ + 1]
    /\ UNCHANGED <<trackerVars, densityVars, expandVars, sidebarVars, buildVars, isLoading,
                   nextTimer, polls>>

\* lines 203-220: the demo data is fetched and read
DemoLoads ==
    /\ questions.loadingDemo > 0
    /\ questions' = [questions EXCEPT !.loadingDemo = @ - 1, !.hiding = @ + 1]
    /\ UNCHANGED <<trackerVars, densityVars, expandVars, sidebarVars, buildVars,
                   loadingProgress, isLoading, pollingIntervalRef,
                   pollingFailureCountRef, syntheticProgressIntervalRef, timers,
                   nextTimer, polls, pollLog>>

\* lines 203-208 and 243-247: the demo data cannot be loaded
DemoFails ==
    /\ questions.loadingDemo > 0
    /\ questions' = [questions EXCEPT !.loadingDemo = @ - 1]
    /\ isLoading' = FALSE
    /\ UNCHANGED <<trackerVars, densityVars, expandVars, sidebarVars, buildVars,
                   loadingProgress, pollingIntervalRef, pollingFailureCountRef,
                   syntheticProgressIntervalRef, timers, nextTimer, polls,
                   pollLog>>

\* lines 159-161 and 218-220: the 400 ms timeout hides the overlay
HideOverlay ==
    /\ questions.hiding > 0
    /\ questions' = [questions EXCEPT !.hiding = @ - 1]
    /\ isLoading' = FALSE
    /\ UNCHANGED <<trackerVars, densityVars, expandVars, sidebarVars, buildVars,
                   loadingProgress, pollingIntervalRef, pollingFailureCountRef,
                   syntheticProgressIntervalRef, timers, nextTimer, polls,
                   pollLog>>

NextPolling ==
    \/ HandleQuestionSubmit
    \/ PollTick
    \/ ProgressFetchOk
    \/ ProgressFetchNotOk
    \/ ProgressFetchRejects
    \/ ProgressJsonSettles
    \/ ProgressJsonRejects
    \/ SyntheticTick
    \/ AskQuestionResolves
    \/ AskQuestionRejects
    \/ DemoLoads
    \/ DemoFails
    \/ HideOverlay

SpecPolling == InitPolling /\ [][NextPolling]_vars

----------------------------------------------------------------------------
(* Claims about the progress polling *)

TimersOf(ts, kind) == {t \in ts : t.kind = kind}

\* the step ends a poll with this outcome
PollEnded(outcome) ==
    /\ Len(pollLog') = Len(pollLog) + 1
    /\ pollLog'[Len(pollLog')] = outcome

\* the three latest entries are failed polls: no successful poll and no
\* cleanupPolling came between them or after them
LastThreeFailed(log) ==
    /\ Len(log) >= 3
    /\ \A i \in (Len(log) - 2)..Len(log) : log[i] = "failed"

SyntheticStarted == TimersOf(timers', "synthetic") \ timers # {}

\* C27: polls are sent by the polling interval only, which runs only while a
\* question is awaiting its answer; the poll that is the third failed one in a
\* row (a response that is not OK, or a rejected fetch or body read) leaves no
\* polling interval and a running synthetic interval; a callback of a
\* synthetic interval sets a progress of at most 90; a successful poll sets
\* the failure count to 0; and a synthetic interval is started only by a
\* poll that is the third failed one in a row.
C27_SwitchAfterThreeFailures ==
    [][/\ polls'.fetch = polls.fetch + 1 =>
            /\ TimersOf(timers, "polling") # {}
            /\ questions.asking > 0
       /\ (PollEnded("failed") /\ LastThreeFailed(pollLog')) =>
            /\ TimersOf(timers', "polling") = {}
            /\ pollingIntervalRef' = 0
            /\ Timer(syntheticProgressIntervalRef', "synthetic") \in timers'
       /\ (loadingProgress' # loadingProgress /\ UNCHANGED <<polls, questions, pollLog>>) =>
            loadingProgress' <= 90
       /\ PollEnded("ok") => pollingFailureCountRef' = 0
       /\ SyntheticStarted => PollEnded("failed") /\ LastThreeFailed(pollLog')
      ]_vars

\* a successful poll, later three failed ones in a row, the synthetic
\* interval running alone and its progress at the cap, the question still open
C27_Witness ==
    /\ questions.asking > 0
    /\ LastThreeFailed(pollLog)
    /\ \E i \in DOMAIN pollLog : pollLog[i] = "ok"
    /\ TimersOf(timers, "polling") = {}
    /\ TimersOf(timers, "synthetic") # {}
    /\ loadingProgress = 90

\* every question submitted has had its answer or the demo fallback handled
Handled == questions.asked > 0 /\ questions.asking = 0

\* C28: once every submitted question has been handled no interval is active
\* and the progress shown by the overlay is 100, whatever polls end later;
\* and there is never more than one polling interval or more than one
\* synthetic interval.
C28_HandledIsFinal ==
    /\ Handled => timers = {}
    /\ (Handled /\ isLoading) => loadingProgress = 100
    /\ Cardinality(TimersOf(timers, "polling")) <= 1
    /\ Cardinality(TimersOf(timers, "synthetic")) <= 1

----------------------------------------------------------------------------
(***************************************************************************)
(* The graph build: the truncation of the Secondary Concept Extractor and  *)
(* the Semantic Edge Builder.  Their code (secondarySourceAgent.ts and     *)
(* semanticGraphBuilder.ts, named by backend/OVERVIEW.md) is not among the *)
(* sources at hand, so both are modelled from their documented algorithm   *)
(* over the DensityConfig of density.ts.  Similarities are in hundredths,  *)
(* as minSimilarity is.  Nodes and concepts are numbered in input order.   *)
(***************************************************************************)

\* how many nodes a build has
MaxNodes == 3
\* how many concepts the processed sources return in all
MaxCollected == 3

BuildNodes == 1..MaxNodes
Pairs == {p \in BuildNodes \X BuildNodes : p[1] < p[2]}
\* cosine similarities: below every preset's threshold, between two, above all
SimilarityArgs == {50, 62, 90}
\* the semanticEdges of the presets, and small ones that 3 nodes can exceed
SemanticArgs ==
    {DENSITY_PRESETS[l].semanticEdges : l \in DensityLevels}
        \cup {Semantic(60, k, m) : k \in {1, 2}, m \in {1, 2}}
\* the secondarySources of the presets, and small caps
SecondaryArgs ==
    {DENSITY_PRESETS[l].secondarySources : l \in DensityLevels}
        \cup {Secondary(3, 2, m) : m \in {1, 2}}
ImportanceArgs == {NotGiven, Given(3), Given(8)}

ExtractedConcept(i, importance) ==
    [title |-> "c" \o ToString(i), importance |-> importance]

\* the concepts collected across the processed sources, in input order
CollectedArgs ==
    UNION {{[i \in 1..n |-> ExtractedConcept(i, imp[i])] :
                imp \in [1..n -> ImportanceArgs]} : n \in 0..MaxCollected}

\* descending importance, undefined importance last
importanceAbove(x, y) == x # NotGiven /\ (y = NotGiven \/ x[1] > y[1])

\* the stable order of the sort: equal importance keeps the input order
sortsBefore(cs, i, j) ==
    \/ importanceAbove(cs[i].importance, cs[j].importance)
    \/ /\ ~importanceAbove(cs[j].importance, cs[i].importance)
       /\ i < j

byImportance(cs) ==
    [k \in 1..Len(cs) |->
        cs[CHOOSE i \in DOMAIN cs :
              Cardinality({j \in DOMAIN cs : sortsBefore(cs, j, i)}) = k - 1]]

truncateConcepts_FirstOnes(cs, cfg) ==
    IF Len(cs) > cfg.maxTotalConcepts THEN SubSeq(cs, 1, cfg.maxTotalConcepts) ELSE cs

\* when the total exceeds maxTotalConcepts, the highest-importance concepts
\* up to the cap
truncateConcepts(cs, cfg) ==
    IF Len(cs) > cfg.maxTotalConcepts
    THEN SubSeq(byImportance(cs), 1, cfg.maxTotalConcepts)
    ELSE cs

similarity(sim, a, b) == IF a < b THEN sim[<<a, b>>] ELSE sim[<<b, a>>]

\* step 3: the topK highest-similarity neighbours of a with similarity >=
\* minSimilarity
neighbours(embedded, sim, cfg, a) ==
    {b \in embedded \ {a} :
        /\ similarity(sim, a, b) >= cfg.minSimilarity
        /\ Cardinality({c \in embedded \ {a} :
               \/ similarity(sim, a, c) > similarity(sim, a, b)
               \/ similarity(sim, a, c) = similarity(sim, a, b) /\ c < b})
             < cfg.topK}

\* step 4: the surviving pairs, unordered and deduplicated
candidates(embedded, sim, cfg) ==
    {p \in Pairs :
        /\ p[1] \in embedded /\ p[2] \in embedded
        /\ \/ p[2] \in neighbours(embedded, sim, cfg, p[1])
           \/ p[1] \in neighbours(embedded, sim, cfg, p[2])}

pairBefore(p, q) == p[1] < q[1] \/ (p[1] = q[1] /\ p[2] < q[2])

strongest_Uncapped(cands, sim, cfg) == cands

\* step 5: the maxEdges strongest candidates
strongest(cands, sim, cfg) ==
    {p \in cands :
        Cardinality({q \in cands :
            \/ sim[q] > sim[p]
            \/ sim[q] = sim[p] /\ pairBefore(q, p)}) < cfg.maxEdges}

BuildNodeId(a) == "n" \o ToString(a)

\* steps 2-6 over the nodes whose embedding call succeeded
semanticEdges(embedded, sim, cfg) ==
    {[from |-> BuildNodeId(p[1]), to |-> BuildNodeId(p[2]),
      relation |-> "semantic_related", weight |-> sim[p]] :
        p \in strongest(candidates(embedded, sim, cfg), sim, cfg)}

InitBuild ==
    /\ TrackerAtRest /\ DensityAtRest /\ ExpandAtRest /\ SidebarAtRest
    /\ AppAtRest /\ BuildAtRest

\* a build runs each stage on the inputs of its request
ExtractSecondaryConcepts ==
    /\ build = NoBuild
    /\ \E cs \in CollectedArgs, cfg \in SecondaryArgs :
           build' = [op |-> "secondaryConcepts", collected |-> cs, config |-> cfg,
                     kept |-> truncateConcepts(cs, cfg)]
    /\ UNCHANGED <<trackerVars, densityVars, expandVars, sidebarVars, appVars>>

BuildSemanticEdges ==
    /\ build = NoBuild
    /\ \E embedded \in SUBSET BuildNodes, sim \in [Pairs -> SimilarityArgs],
          cfg \in SemanticArgs :
           build' = [op |-> "semanticEdges", embedded |-> embedded, sim |-> sim,
                     config |-> cfg, edges |-> semanticEdges(embedded, sim, cfg)]
    /\ UNCHANGED <<trackerVars, densityVars, expandVars, sidebarVars, appVars>>

\* the stage's output is handed on
BuildReturns ==
    /\ build # NoBuild
    /\ build' = NoBuild
    /\ UNCHANGED <<trackerVars, densityVars, expandVars, sidebarVars, appVars>>

NextBuild ==
    \/ ExtractSecondaryConcepts
    \/ BuildSemanticEdges
    \/ BuildReturns

SpecBuild == InitBuild /\ [][NextBuild]_vars

----------------------------------------------------------------------------
(* Claims about the graph build *)

Endpoints(e) == {e.from, e.to}

\* C24: the semantic_related edges of a build have no self-edge and no two
\* of them join the same unordered pair of nodes; each has a weight of at
\* least minSimilarity; and there are at most maxEdges of them.
C24_SemanticEdgesBounded ==
    build.op = "semanticEdges" =>
        /\ \A e \in build.edges :
             /\ e.relation = "semantic_related"
             /\ e.from # e.to
             /\ e.weight >= build.config.minSimilarity
             /\ \A f \in build.edges : Endpoints(e) = Endpoints(f) => e = f
        /\ Cardinality(build.edges) <= build.config.maxEdges

\* more candidates than maxEdges, a pair that qualified only through one of
\* its nodes, and a pair left out for its similarity
C24_Witness ==
    /\ build.op = "semanticEdges"
    /\ Cardinality(candidates(build.embedded, build.sim, build.config))
         > build.config.maxEdges
    /\ Cardinality(build.edges) = build.config.maxEdges
    /\ \E p \in candidates(build.embedded, build.sim, build.config) :
         p[1] \notin neighbours(build.embedded, build.sim, build.config, p[2])
    /\ \E p \in Pairs : build.sim[p] < build.config.minSimilarity

KeptTitles == {build.kept[k].title : k \in DOMAIN build.kept}

\* C25: at most maxTotalConcepts concepts are kept; when the collected ones
\* are more, exactly maxTotalConcepts are kept, each drawn from the
\* collected ones, and no dropped concept has a higher importance than a
\* kept one (undefined being the lowest) or the same importance and an
\* earlier place in the input.
C25_HighestImportanceKept ==
    build.op = "secondaryConcepts" =>
        LET cs == build.collected
            cap == build.config.maxTotalConcepts
        IN /\ Len(build.kept) <= cap
           /\ Len(cs) <= cap => build.kept = cs
           /\ Len(cs) > cap =>
                /\ Len(build.kept) = cap
                /\ Cardinality(KeptTitles) = cap
                /\ \A k \in DOMAIN build.kept : \E i \in DOMAIN cs : cs[i] = build.kept[k]
                /\ \A i, j \in DOMAIN cs :
                     (cs[i].title \in KeptTitles /\ cs[j].title \notin KeptTitles) =>
                         /\ ~importanceAbove(cs[j].importance, cs[i].importance)
                         /\ cs[j].importance = cs[i].importance => i < j

\* a truncation that drops an earlier concept, keeps a later one of higher
\* importance, and decides between two of equal importance
C25_Witness ==
    /\ build.op = "secondaryConcepts"
    /\ Len(build.collected) > build.config.maxTotalConcepts
    /\ \E i, j \in DOMAIN build.collected :
         /\ i < j
         /\ build.collected[i].title \notin KeptTitles
         /\ build.collected[j].title \in KeptTitles
    /\ \E i, j \in DOMAIN build.collected :
         /\ i < j
         /\ build.collected[i].importance = build.collected[j].importance
         /\ build.collected[i].title \in KeptTitles
         /\ build.collected[j].title \notin KeptTitles
    /\ \E i \in DOMAIN build.collected : build.collected[i].importance = NotGiven

====
